---- MODULE Spec2Model ----
(***************************************************************************)
(* Source-Stitcher: the file discovery and filtering engine                *)
(* (ProjectFileWalker, file_utils) and the GeneratorWorker that drives it. *)
(*                                                                         *)
(* A file name is a sequence of one-character strings, a path a sequence   *)
(* of names from the filesystem root, so that lower-casing, suffixes,      *)
(* hidden names and sort keys are computed and not assumed.                *)
(***************************************************************************)
EXTENDS Integers, Sequences, FiniteSets, TLC

(***************************************************************************)
(* Characters and names (str, str.lower, str.startswith, Path.suffix)      *)
(***************************************************************************)

\* Code point of a character (Python compares strings by code point).
Ord(c) ==
    CASE c = "." -> 46
      [] c = "A" -> 65  [] c = "B" -> 66  [] c = "P" -> 80  [] c = "Y" -> 89
      [] c = "a" -> 97  [] c = "b" -> 98  [] c = "c" -> 99  [] c = "d" -> 100
      [] c = "e" -> 101 [] c = "f" -> 102 [] c = "g" -> 103 [] c = "h" -> 104
      [] c = "i" -> 105 [] c = "k" -> 107 [] c = "l" -> 108 [] c = "m" -> 109 [] c = "n" -> 110
      [] c = "o" -> 111 [] c = "p" -> 112 [] c = "r" -> 114 [] c = "s" -> 115
      [] c = "t" -> 116 [] c = "u" -> 117 [] c = "w" -> 119 [] c = "x" -> 120
      [] c = "y" -> 121 [] c = "z" -> 122

\* str.lower on one character.
LowerChar(c) ==
    CASE c = "A" -> "a" [] c = "B" -> "b" [] c = "P" -> "p" [] c = "Y" -> "y"
      [] OTHER -> c

\* str.lower
Lower(s) == [k \in 1..Len(s) |-> LowerChar(s[k])]

\* s < t for Python strings: lexicographic by code point.
RECURSIVE StrLess(_, _)
StrLess(s, t) ==
    IF t = <<>> THEN FALSE
    ELSE IF s = <<>> THEN TRUE
    ELSE IF Ord(Head(s)) # Ord(Head(t)) THEN Ord(Head(s)) < Ord(Head(t))
    ELSE StrLess(Tail(s), Tail(t))

\* str.startswith(".")
StartsWithDot(s) == Len(s) > 0 /\ s[1] = "."

\* Position of the last "." of a name, 0 when there is none (str.rfind + 1).
LastDot(s) ==
    LET ds == {k \in 1..Len(s) : s[k] = "."}
    IN IF ds = {} THEN 0 ELSE CHOOSE k \in ds : \A j \in ds : j <= k

\* PurePath.suffix: the text from the last dot on, when that dot is neither
\* the first nor the last character; otherwise the empty string.
Suffix(s) ==
    LET k == LastDot(s)
    IN IF k > 1 /\ k < Len(s) THEN SubSeq(s, k, Len(s)) ELSE <<>>

(***************************************************************************)
(* Sequences                                                               *)
(***************************************************************************)

Range(s) == {s[k] : k \in 1..Len(s)}

\* list.sort(key=...) on a list of <<key, item>> pairs: a stable sort by key,
\* ties keep their order.
RECURSIVE InsertSorted(_, _)
InsertSorted(x, s) ==
    IF s = <<>> THEN <<x>>
    ELSE IF StrLess(Head(s)[1], x[1]) \/ Head(s)[1] = x[1]
         THEN <<Head(s)>> \o InsertSorted(x, Tail(s))
         ELSE <<x>> \o s

RECURSIVE StableSort(_)
StableSort(s) ==
    IF s = <<>> THEN <<>>
    ELSE InsertSorted(s[Len(s)], StableSort(SubSeq(s, 1, Len(s) - 1)))

\* names.sort(key=str.lower)
SortNames(s) ==
    LET r == StableSort([k \in 1..Len(s) |-> <<Lower(s[k]), s[k]>>])
    IN [k \in 1..Len(r) |-> r[k][2]]

(***************************************************************************)
(* Paths (pathlib)                                                         *)
(***************************************************************************)

\* Path.name
Name(p) == IF p = <<>> THEN <<>> ELSE p[Len(p)]

\* Path.parent
Parent(p) == SubSeq(p, 1, Len(p) - 1)

IsPrefix(b, p) == Len(b) <= Len(p) /\ SubSeq(p, 1, Len(b)) = b

\* Path.relative_to(base): defined only below base (ValueError otherwise);
\* the empty sequence is Path(".").
CanRelativeTo(p, base) == IsPrefix(base, p)
RelativeTo(p, base) == SubSeq(p, Len(base) + 1, Len(p))

(***************************************************************************)
(* The filesystem the walker runs on                                       *)
(***************************************************************************)

nW == <<"w">>
nO == <<"o">>
nSub == <<"s", "u", "b">>
nD == <<"d">>
nHid == <<".", "h", "i", "d">>
nA == <<"a", ".", "p", "y">>
nBup == <<"B", ".", "p", "y">>
nB == <<"b", ".", "p", "y">>
nE == <<"e", ".", "p", "y">>
nN == <<"n", ".", "p", "y">>
nT == <<"t", ".", "p", "y">>
nF == <<"f", ".", "p", "y">>
nG == <<"g", ".", "p", "y">>
nZ == <<"z", ".", "p", "y">>
nLn == <<"l", "n", ".", "p", "y">>
nHiddenPy == <<".", "h", ".", "p", "y">>
nLicense == <<"l", "i", "c", "e", "n", "s", "e">>
nNotes == <<"n", "o", "t", "e", "s">>
nGitignore == <<".", "g", "i", "t", "i", "g", "n", "o", "r", "e">>
nNpmignore == <<".", "n", "p", "m", "i", "g", "n", "o", "r", "e">>
nDockerignore == <<".", "d", "o", "c", "k", "e", "r", "i", "g", "n", "o", "r", "e">>
nGit == <<".", "g", "i", "t">>
nInfo == <<"i", "n", "f", "o">>
nExclude == <<"e", "x", "c", "l", "u", "d", "e">>
nPipe == <<"p", "i", "p", "e">>

\* generation_options.base_directory
BaseDirectory == <<nW>>

\* A gitignore line: "name" is a pattern without a slash (it matches at any
\* depth), "anchored" a pattern with a leading or inner slash (it matches
\* from the directory of the ignore file); dir_only is a trailing slash.
NamePattern(n) == [kind |-> "name", dir_only |-> FALSE, parts |-> <<n>>]
DirPattern(n) == [kind |-> "name", dir_only |-> TRUE, parts |-> <<n>>]
AnchoredPattern(p) == [kind |-> "anchored", dir_only |-> FALSE, parts |-> p]

FileNode(p, dev, ino, size, nul) ==
    [path |-> p, kind |-> "file", dev |-> dev, ino |-> ino, size |-> size,
     nul |-> nul, target |-> <<>>, lines |-> <<>>]
IgnoreFileNode(p, ino, lines) ==
    [path |-> p, kind |-> "file", dev |-> 1, ino |-> ino, size |-> 20,
     nul |-> 0, target |-> <<>>, lines |-> lines]
DirNode(p, dev, ino) ==
    [path |-> p, kind |-> "dir", dev |-> dev, ino |-> ino, size |-> 64,
     nul |-> 0, target |-> <<>>, lines |-> <<>>]
LinkNode(p, ino, target) ==
    [path |-> p, kind |-> "link", dev |-> 1, ino |-> ino, size |-> 8,
     nul |-> 0, target |-> target, lines |-> <<>>]

\* The directory entries, each directory's in the order os.scandir lists
\* them.  size is st_size; nul is the offset (from 1) of the first NUL byte
\* of the content, 0 when it holds none.  /w/sub/a.py is a hard link of
\* /w/a.py; /w/sub/d is a mount point (device 2), where f.py has the inode
\* number of /w/a.py on another device; /w/sub/pipe is a named pipe; /o lies
\* outside base_directory.
Entries ==
    << DirNode(<<nW>>, 1, 100),
       DirNode(<<nW, nSub>>, 1, 101),
       FileNode(<<nW, nBup>>, 1, 2, 40, 0),
       DirNode(<<nW, nHid>>, 1, 102),
       FileNode(<<nW, nA>>, 1, 1, 30, 0),
       FileNode(<<nW, nE>>, 1, 4, 0, 0),
       FileNode(<<nW, nLicense>>, 1, 10, 50, 0),
       FileNode(<<nW, nHiddenPy>>, 1, 3, 10, 0),
       IgnoreFileNode(<<nW, nGitignore>>, 20,
                      <<AnchoredPattern(<<nSub, nD, nT>>), NamePattern(nNotes)>>),
       DirNode(<<nW, nGit>>, 1, 105),
       DirNode(<<nW, nGit, nInfo>>, 1, 106),
       IgnoreFileNode(<<nW, nGit, nInfo, nExclude>>, 23, <<NamePattern(nLicense)>>),
       DirNode(<<nW, nSub, nD>>, 2, 103),
       FileNode(<<nW, nSub, nN>>, 1, 5, 60, 10),
       FileNode(<<nW, nSub, nB>>, 1, 6, 20, 0),
       FileNode(<<nW, nSub, nA>>, 1, 1, 30, 0),
       FileNode(<<nW, nSub, nNotes>>, 1, 11, 15, 0),
       IgnoreFileNode(<<nW, nSub, nGitignore>>, 21,
                      <<AnchoredPattern(<<nB>>), NamePattern(nF)>>),
       IgnoreFileNode(<<nW, nSub, nDockerignore>>, 22, <<DirPattern(nD)>>),
       [FileNode(<<nW, nSub, nPipe>>, 1, 13, 0, 0) EXCEPT !.kind = "fifo"],
       FileNode(<<nW, nSub, nD, nT>>, 2, 7, 3000, 2000),
       FileNode(<<nW, nSub, nD, nF>>, 2, 1, 25, 0),
       LinkNode(<<nW, nSub, nD, nLn>>, 9, <<nW, nBup>>),
       FileNode(<<nW, nHid, nG>>, 1, 8, 12, 0),
       DirNode(<<nO>>, 1, 104),
       FileNode(<<nO, nZ>>, 1, 12, 33, 0) >>

\* What the environment does to the filesystem calls of the walker:
\*   failing     paths on which every call (stat, open, scandir) raises OSError;
\*   unreadable  paths that can be stat'ed but not opened or listed;
\*   removed     paths that are gone, with everything below them.
VARIABLE fs_env

NoFaults == [failing |-> {}, unreadable |-> {}, removed |-> {}]

Gone(p) == \E k \in 1..Len(p) : SubSeq(p, 1, k) \in fs_env.removed

Exists(p) == ~Gone(p) /\ \E k \in 1..Len(Entries) : Entries[k].path = p
Node(p) == Entries[CHOOSE k \in 1..Len(Entries) : Entries[k].path = p]

\* Follow symbolic links to the node a path names; "missing" when the path
\* or a link's target does not exist.
RECURSIVE Resolve(_)
Resolve(p) ==
    IF ~Exists(p) THEN [kind |-> "missing"]
    ELSE IF Node(p).kind = "link" THEN Resolve(Node(p).target)
    ELSE Node(p)

\* os.stat(path): follows symbolic links; OSError when nothing is there or
\* the call fails.
StatFails(p) == Resolve(p).kind = "missing" \/ p \in fs_env.failing
Stat(p) ==
    LET n == Resolve(p)
    IN [mode |-> n.kind, st_dev |-> n.dev, st_ino |-> n.ino, st_size |-> n.size]

\* Path.is_file() and Path.is_dir() (both follow symbolic links).
IsFile(p) == Resolve(p).kind = "file"
IsDir(p) == Resolve(p).kind = "dir"

\* os.path.islink
IsLink(p) == Exists(p) /\ Node(p).kind = "link"

\* open(path) raises OSError.
OpenFails(p) == p \in fs_env.failing \cup fs_env.unreadable

\* os.scandir(top) raises OSError.
ScanFails(top) == top \in fs_env.failing \cup fs_env.unreadable

\* os.scandir(top): the names in top, in directory order.
ScanDir(top) ==
    LET es == SelectSeq(Entries, LAMBDA e : /\ Len(e.path) = Len(top) + 1
                                            /\ IsPrefix(top, e.path)
                                            /\ Exists(e.path))
    IN [k \in 1..Len(es) |-> Name(es[k].path)]

\* os.walk: a directory that cannot be listed is reported to onerror and
\* yields nothing; the walk goes on with the next directory of its queue.
RECURSIVE Unlistable(_)
Unlistable(queue) ==
    IF queue = <<>> \/ ~ScanFails(Head(queue)) THEN <<>>
    ELSE <<Head(queue)>> \o Unlistable(Tail(queue))

(***************************************************************************)
(* file_utils                                                              *)
(***************************************************************************)

\* is_binary_file: number of bytes sniffed.
CHUNK_SIZE == 1024

\* Mutant of is_binary_file: only the first 8 bytes are sniffed.
is_binary_file_short_sniff(filepath) ==
    LET n == Resolve(filepath)
    IN IF n.kind # "file" \/ OpenFails(filepath) THEN TRUE
       ELSE n.nul >= 1 /\ n.nul <= 8 /\ n.nul <= n.size

\* Mutant of is_binary_file: a file that cannot be read counts as text.
is_binary_file_error_as_text(filepath) ==
    LET n == Resolve(filepath)
    IN IF n.kind # "file" THEN TRUE
       ELSE ~OpenFails(filepath) /\ n.nul >= 1 /\ n.nul <= CHUNK_SIZE /\ n.nul <= n.size

\* is_binary_file: a NUL byte among the first CHUNK_SIZE bytes (an
\* unreadable file counts as binary).
is_binary_file(filepath) ==
    LET n == Resolve(filepath)
    IN IF n.kind # "file" \/ OpenFails(filepath) THEN TRUE
       ELSE n.nul >= 1 /\ n.nul <= CHUNK_SIZE /\ n.nul <= n.size

\* is_likely_text_file: the conventional text file names.
text_filenames == {nLicense, <<"r", "e", "a", "d", "m", "e">>, <<"t", "o", "d", "o">>}
\* is_likely_text_file: dotfiles that are never taken for text.
skip_dotfiles == {nGit, <<".", "s", "o">>}
\* is_likely_text_file: extensions taken for text.
possible_text_extensions == {<<".", "i", "n", "i">>, <<".", "e", "n", "v">>, <<".", "t", "f">>}

is_likely_text_file(filepath) ==
    IF Lower(Name(filepath)) \in text_filenames THEN ~is_binary_file(filepath)
    ELSE IF StartsWithDot(Name(filepath)) /\ Len(Name(filepath)) > 1
            /\ Lower(Name(filepath)) \notin skip_dotfiles
         THEN ~is_binary_file(filepath)
    ELSE IF Suffix(Name(filepath)) = <<>> THEN ~is_binary_file(filepath)
    ELSE IF Lower(Suffix(Name(filepath))) \in possible_text_extensions
         THEN ~is_binary_file(filepath)
    ELSE FALSE

\* Mutant of matches_file_type: the catch-all does not ask whether the file
\* belongs to a known category.
matches_file_type_open_catch_all(filepath, selected_exts, selected_names, all_exts, all_names, handle_other) ==
    LET file_ext == Lower(Suffix(Name(filepath)))
        file_name == Lower(Name(filepath))
    IN IF file_name \in selected_names THEN TRUE
       ELSE IF file_ext \in selected_exts THEN TRUE
       ELSE IF handle_other THEN is_likely_text_file(filepath)
       ELSE FALSE

matches_file_type(filepath, selected_exts, selected_names, all_exts, all_names, handle_other) ==
    LET file_ext == Lower(Suffix(Name(filepath)))
        file_name == Lower(Name(filepath))
    IN IF file_name \in selected_names THEN TRUE
       ELSE IF file_ext \in selected_exts THEN TRUE
       ELSE IF handle_other /\ file_name \notin all_names /\ file_ext \notin all_exts
            THEN is_likely_text_file(filepath)
       ELSE FALSE

\* An optional PathSpec: None, or the compiled patterns.
None == [present |-> FALSE, patterns |-> {}]
PathSpec(patterns) == [present |-> TRUE, patterns |-> patterns]

\* GitWildMatchPattern on a path given as its components; is_dir says that
\* the match string ends with "/".
PatternMatches(pat, comps, is_dir) ==
    IF pat.kind = "name"
    THEN \E k \in 1..Len(comps) :
            /\ comps[k] = pat.parts[1]
            /\ (~pat.dir_only \/ k < Len(comps) \/ is_dir)
    ELSE /\ IsPrefix(pat.parts, comps)
         /\ (~pat.dir_only \/ Len(pat.parts) < Len(comps) \/ is_dir)

\* `spec and spec.match_file(s)`
SpecMatches(spec, comps, is_dir) ==
    /\ spec.present
    /\ \E pat \in spec.patterns : PatternMatches(pat, comps, is_dir)

\* The lines of an ignore file, nothing when it is no file or cannot be
\* read.
IgnoreLines(p) == IF IsFile(p) /\ ~OpenFails(p) THEN Resolve(p).lines ELSE <<>>

load_ignore_patterns(directory, use_gitignore, use_npmignore, use_dockerignore) ==
    LET patterns ==
            (IF use_gitignore THEN IgnoreLines(directory \o <<nGitignore>>) ELSE <<>>)
         \o (IF use_npmignore THEN IgnoreLines(directory \o <<nNpmignore>>) ELSE <<>>)
         \o (IF use_dockerignore THEN IgnoreLines(directory \o <<nDockerignore>>) ELSE <<>>)
         \o (IF IsDir(directory \o <<nGit>>)
             THEN IgnoreLines(directory \o <<nGit, nInfo, nExclude>>) ELSE <<>>)
    IN IF patterns # <<>> THEN PathSpec(Range(patterns)) ELSE None

(***************************************************************************)
(* State                                                                   *)
(***************************************************************************)

VARIABLES
    selected_paths,          \* config.generation_options.selected_paths
    filter_settings,         \* config.filter_settings
    is_cancelled,            \* ProjectFileWalker._is_cancelled
    pc,                      \* where discover_files stands
    idx,                     \* position of the for loop over selected_paths
    discovered_files,        \* discover_files: discovered_files
    seen,                    \* discover_files: seen
    dir_path,                \* _discover_directory_recursive: dir_path
    current_dir_ignore_spec, \* the local spec loaded for dir_path
    stack,                   \* os.walk: directories still to list
    root,                    \* os.walk: the directory yielded
    dirs,                    \* os.walk: its subdirectory names
    files,                   \* os.walk: its other names
    fidx,                    \* position of the for loop over files
    dir_files,               \* _discover_directory_recursive: discovered_files
    calls,                   \* calls of discover_files made so far
    inputs,                  \* selected_paths as given to each call
    returned,                \* (file_list, total_count) as each finished call returned it
    found_at,                \* per file of discovered_files: the position of its selected path
    scanned,                 \* directories listed by os.walk in the current call
    acc_at_cancel,           \* what was accumulated when cancel() set the flag
    wpc,                     \* where GeneratorWorker.run stands ("none": no worker)
    worker_cancelled,        \* GeneratorWorker._is_cancelled
    signals,                 \* the Qt signals emitted so far, in order
    temp_path,               \* run: temp_path
    temp_exists,             \* whether the temporary file is on disk
    output,                  \* what has been written to the temporary file
    sidx,                    \* stream_files: position in the file list
    processed_files,         \* stream_files: processed_files
    io_fault,                \* the operations of run at which the environment raises an error
    match_args,              \* the arguments matches_file_type is applied to
    match_result,            \* what it returned (empty before the call)
    caller_outcome,          \* what the caller of the worker made of finished (empty before)
    read_args,               \* the arguments get_file_content is applied to
    read_result,             \* what it did (empty before the call)
    processed_count,         \* stream_files: the files counted so far
    is_generating,           \* main window: a generation is under way
    worker,                  \* main window: its GeneratorWorker (0: None)
    worker_thread,           \* main window: its QThread (0: None)
    thread_state,            \* per thread created: where it and its run are
    cancel_flags,            \* per worker created: its _is_cancelled
    event_queue,             \* slots queued for the GUI thread
    clicks,                  \* Generate and Cancel clicks so far
    ignored,                 \* calls of start_generate_file that returned at once
    lpc,                     \* legacy worker: where run stands
    lidx,                    \* legacy worker: position in selected_paths
    lseen,                   \* legacy worker: seen of the phase under way
    total_files,             \* legacy worker: the count of the pre-scan
    accepted,                \* legacy worker: files the processing phase accepted
    ldir,                    \* legacy worker: the directory being traversed
    lfiles                   \* legacy worker: the files the traversal has yet to meet

vars == <<selected_paths, filter_settings, is_cancelled, pc, idx,
          discovered_files, seen, dir_path, current_dir_ignore_spec, stack,
          root, dirs, files, fidx, dir_files, calls, inputs, returned,
          found_at, scanned, acc_at_cancel, wpc, worker_cancelled, signals,
          temp_path, temp_exists, output, sidx, processed_files, io_fault,
          match_args, match_result, caller_outcome, fs_env, read_args,
          read_result, processed_count, is_generating, worker, worker_thread,
          thread_state, cancel_flags, event_queue, clicks, ignored, lpc, lidx,
          lseen, total_files, accepted, ldir, lfiles>>

config_vars == <<selected_paths, filter_settings>>
walk_vars == <<dir_path, current_dir_ignore_spec, stack, root, dirs, files, fidx, dir_files>>
history_vars == <<calls, inputs, returned, acc_at_cancel>>
worker_vars == <<wpc, worker_cancelled, signals, temp_path, temp_exists, output,
                 sidx, processed_files, io_fault>>
match_vars == <<match_args, match_result>>
caller_vars == <<caller_outcome>>
env_vars == <<fs_env>>
gui_vars == <<is_generating, worker, worker_thread, thread_state, cancel_flags,
              event_queue, clicks, ignored>>
legacy_vars == <<lpc, lidx, lseen, total_files, accepted, ldir, lfiles>>
other_vars == <<read_args, read_result, processed_count, gui_vars, legacy_vars>>

\* Everything accumulated so far by the call in progress.
Accumulated == discovered_files \o dir_files

(***************************************************************************)
(* ProjectFileWalker: the filters                                          *)
(***************************************************************************)

\* Mutant of regular_nonempty: the size is not looked at.
regular_any_size(st) == st.mode = "file"

\* _should_include_file: "Skip non-regular files and empty files".
regular_nonempty(st) == st.mode = "file" /\ st.st_size # 0

\* _should_include_file: "Skip hidden files".
hidden_name(file_path) == StartsWithDot(Name(file_path))

\* Mutant of dev_ino: files are told apart by inode number alone.
dev_ino_inode_only(st) == <<0, st.st_ino>>

\* _should_include_file: the identity a file is remembered by.
dev_ino(st) == <<st.st_dev, st.st_ino>>

\* _should_include_file: the directory the path given to the local spec is
\* made relative to, base_directory / root_relative_to_current.
local_anchor(root_relative_to_current) == BaseDirectory \o root_relative_to_current

\* Mutant of should_include_file: a path that cannot be made relative to
\* base_directory is not rejected.
should_include_file_any_base(file_path, st, seen_set, local_spec, root_relative_to_current) ==
    IF ~regular_nonempty(st) THEN FALSE
    ELSE IF hidden_name(file_path) THEN FALSE
    ELSE IF dev_ino(st) \in seen_set THEN FALSE
    ELSE IF SpecMatches(filter_settings.ignore_spec,
                        RelativeTo(file_path, BaseDirectory), FALSE) THEN FALSE
    ELSE IF /\ local_spec.present
            /\ CanRelativeTo(file_path, local_anchor(root_relative_to_current))
            /\ SpecMatches(local_spec,
                           RelativeTo(file_path, local_anchor(root_relative_to_current)),
                           FALSE) THEN FALSE
    ELSE IF SpecMatches(filter_settings.global_ignore_spec,
                        RelativeTo(file_path, BaseDirectory), FALSE) THEN FALSE
    ELSE IF ~matches_file_type(file_path,
                               filter_settings.selected_extensions,
                               filter_settings.selected_filenames,
                               filter_settings.all_known_extensions,
                               filter_settings.all_known_filenames,
                               filter_settings.handle_other_text_files) THEN FALSE
    ELSE ~is_binary_file(file_path)

\* _should_include_file.  For a selected file both optional arguments are
\* None, so the local check is skipped; during traversal
\* root_relative_to_current is always a path.
should_include_file(file_path, st, seen_set, local_spec, root_relative_to_current) ==
    IF ~regular_nonempty(st) THEN FALSE
    ELSE IF hidden_name(file_path) THEN FALSE
    ELSE IF dev_ino(st) \in seen_set THEN FALSE
    ELSE IF ~CanRelativeTo(file_path, BaseDirectory) THEN FALSE
    ELSE IF SpecMatches(filter_settings.ignore_spec,
                        RelativeTo(file_path, BaseDirectory), FALSE) THEN FALSE
    ELSE IF /\ local_spec.present
            /\ CanRelativeTo(file_path, local_anchor(root_relative_to_current))
            /\ SpecMatches(local_spec,
                           RelativeTo(file_path, local_anchor(root_relative_to_current)),
                           FALSE) THEN FALSE
    ELSE IF SpecMatches(filter_settings.global_ignore_spec,
                        RelativeTo(file_path, BaseDirectory), FALSE) THEN FALSE
    ELSE IF ~matches_file_type(file_path,
                               filter_settings.selected_extensions,
                               filter_settings.selected_filenames,
                               filter_settings.all_known_extensions,
                               filter_settings.all_known_filenames,
                               filter_settings.handle_other_text_files) THEN FALSE
    ELSE ~is_binary_file(file_path)

\* _is_directory_ignored: a selected directory against the project and
\* global specs.
is_directory_ignored(d) ==
    IF ~CanRelativeTo(d, BaseDirectory) THEN FALSE
    ELSE \/ SpecMatches(filter_settings.ignore_spec, RelativeTo(d, BaseDirectory), TRUE)
         \/ SpecMatches(filter_settings.global_ignore_spec, RelativeTo(d, BaseDirectory), TRUE)

\* _is_directory_ignored_by_name
is_directory_ignored_by_name(dir_name, root_relative_to_base, root_relative_to_current, local_spec) ==
    IF StartsWithDot(dir_name) THEN TRUE
    ELSE \/ SpecMatches(filter_settings.ignore_spec,
                        root_relative_to_base \o <<dir_name>>, TRUE)
         \/ SpecMatches(local_spec, root_relative_to_current \o <<dir_name>>, TRUE)
         \/ SpecMatches(filter_settings.global_ignore_spec,
                        root_relative_to_base \o <<dir_name>>, TRUE)

\* Mutant of filter_directories: no directory is removed.
filter_directories_keeps_all(ds, root_relative_to_base, root_relative_to_current, local_spec) ==
    ds

\* _filter_directories
filter_directories(ds, root_relative_to_base, root_relative_to_current, local_spec) ==
    SelectSeq(ds, LAMBDA d : ~is_directory_ignored_by_name(
                                  d, root_relative_to_base, root_relative_to_current, local_spec))

\* Mutant of SortPaths: the list is left in the caller's order.
SortPaths_caller_order(ps) == ps

\* selected_paths.sort(key=lambda p: p.name.lower())
SortPaths(ps) ==
    LET r == StableSort([k \in 1..Len(ps) |-> <<Lower(Name(ps[k])), ps[k]>>])
    IN [k \in 1..Len(r) |-> r[k][2]]

(***************************************************************************)
(* Inputs                                                                  *)
(***************************************************************************)

\* The language definitions: category -> extensions and file names.
dotPy == <<".", "p", "y">>
dotMd == <<".", "m", "d">>
LanguageExtensions ==
    [Python |-> {dotPy}, Documentation |-> {dotMd, nLicense}]

\* build_filter_sets: all known extensions, all known file names.
AllKnownExtensions ==
    {Lower(e) : e \in {x \in UNION {LanguageExtensions[c] : c \in DOMAIN LanguageExtensions} :
                          StartsWithDot(x)}}
AllKnownFilenames ==
    {Lower(e) : e \in {x \in UNION {LanguageExtensions[c] : c \in DOMAIN LanguageExtensions} :
                          ~StartsWithDot(x)}}

\* get_selected_filter_sets: the filter sets of the checked categories
\* ("Other" is the catch-all item).
SelectedFilter(categories, handle_other) ==
    LET items == UNION {LanguageExtensions[c] : c \in categories}
    IN [selected_extensions |-> {Lower(e) : e \in {x \in items : StartsWithDot(x)}},
        selected_filenames |-> {Lower(e) : e \in {x \in items : ~StartsWithDot(x)}},
        all_known_extensions |-> AllKnownExtensions,
        all_known_filenames |-> AllKnownFilenames,
        handle_other_text_files |-> handle_other]

FilterSettings(categories, handle_other, ignore_spec, global_ignore_spec, use_gitignore) ==
    [ignore_spec |-> ignore_spec,
     global_ignore_spec |-> global_ignore_spec,
     use_gitignore |-> use_gitignore,
     use_npmignore |-> FALSE,
     use_dockerignore |-> FALSE] @@ SelectedFilter(categories, handle_other)

\* The filter settings the runs are started with.
FilterChoices ==
    { FilterSettings({"Python"}, FALSE, None, None, FALSE),
      FilterSettings({"Python"}, TRUE, None, None, TRUE),
      FilterSettings({"Python"}, FALSE,
                     load_ignore_patterns(BaseDirectory, TRUE, FALSE, FALSE), None, TRUE),
      FilterSettings({"Python"}, FALSE, PathSpec({DirPattern(nD)}),
                     PathSpec({NamePattern(nBup)}), FALSE),
      FilterSettings({"Documentation"}, TRUE, None, PathSpec({NamePattern(nA)}), TRUE),
      FilterSettings({"Python"}, FALSE, None,
                     PathSpec({AnchoredPattern(<<nSub, nD>>)}), FALSE),
      [FilterSettings({"Python"}, FALSE, None, None, FALSE)
           EXCEPT !.use_dockerignore = TRUE] }

\* The paths a caller may select.
Selectable ==
    { <<nW>>, <<nW, nSub>>, <<nW, nA>>, <<nW, nSub, nA>>, <<nW, nBup>>,
      <<nW, nSub, nB>>, <<nW, nHid>>, <<nW, nHid, nG>>, <<nW, nE>>,
      <<nW, nHiddenPy>>, <<nW, nSub, nN>>, <<nW, nSub, nD, nLn>>,
      <<nW, nSub, nPipe>>, <<nO>>, <<nO, nZ>> }

\* The selected paths that overlap one another: a directory, files inside
\* and outside it, hard links of one file, names that differ only in case.
Overlapping ==
    { <<nW, nSub>>, <<nW, nA>>, <<nW, nSub, nA>>, <<nW, nBup>>, <<nW, nSub, nB>> }

\* Longest list of selected paths.
MaxSelected == 2

\* Calls of discover_files in one behaviour.
MaxCalls == 2

\* The lists of selected paths: any one selectable path, or up to
\* MaxSelected different overlapping paths in any order.
SelectionChoices ==
    {<<p>> : p \in Selectable} \cup
    UNION { {q \in [1..n -> Overlapping] : \A j, k \in 1..n : j # k => q[j] # q[k]} :
            n \in 2..MaxSelected }

\* The failures the environment brings about: a file that cannot be
\* stat'ed or cannot be read (one that is alone, one with a hard link
\* elsewhere), a directory that cannot be listed, a selected directory that
\* cannot be stat'ed, an ignore file that cannot be read.
FsFaultChoices ==
    { NoFaults,
      [NoFaults EXCEPT !.failing = {<<nW, nSub, nB>>}],
      [NoFaults EXCEPT !.unreadable = {<<nW, nSub, nB>>}],
      [NoFaults EXCEPT !.failing = {<<nW, nA>>}],
      [NoFaults EXCEPT !.unreadable = {<<nW, nSub, nD>>}],
      [NoFaults EXCEPT !.failing = {<<nW, nSub>>}],
      [NoFaults EXCEPT !.unreadable = {<<nW, nSub, nGitignore>>}] }

\* The selections that are walked on a filesystem with failures.
FaultySelections ==
    { <<<<nW>>>>, <<<<nW, nSub>>>>, <<<<nW, nA>>, <<nW, nSub>>>> }

\* The orders a list can be given in.
Orderings(q) ==
    {r \in [1..Len(q) -> Range(q)] : Range(r) = Range(q)}

(***************************************************************************)
(* ProjectFileWalker.discover_files, one step per loop check and loop body *)
(***************************************************************************)

\* No GeneratorWorker: the walker is driven directly.
NoWorker ==
    /\ wpc = "none"
    /\ worker_cancelled = FALSE
    /\ signals = <<>>
    /\ temp_path = ""
    /\ temp_exists = FALSE
    /\ output = <<>>
    /\ sidx = 0
    /\ processed_files = <<>>
    /\ io_fault = {}

\* The caller of the worker has not been told of its end.
NoCaller == caller_outcome = <<>>

\* No call of matches_file_type on its own.
NoMatchCall ==
    /\ match_args = <<>>
    /\ match_result = <<>>

\* No call of get_file_content on its own.
NoReadCall ==
    /\ read_args = <<>>
    /\ read_result = <<>>

\* FileConcatenator.__init__: no worker, no thread, nothing under way.
NoGeneration ==
    /\ is_generating = FALSE
    /\ worker = 0
    /\ worker_thread = 0
    /\ thread_state = <<>>
    /\ cancel_flags = <<>>
    /\ event_queue = <<>>
    /\ clicks = 0
    /\ ignored = 0

\* No legacy worker.
NoLegacyRun ==
    /\ lpc = "none"
    /\ lidx = 0
    /\ lseen = {}
    /\ total_files = 0
    /\ accepted = 0
    /\ ldir = <<>>
    /\ lfiles = <<>>

\* The state of a walker before discover_files is called.
IdleWalker ==
    /\ is_cancelled = FALSE
    /\ pc = "idle"
    /\ idx = 0
    /\ discovered_files = <<>>
    /\ seen = {}
    /\ dir_path = <<>>
    /\ current_dir_ignore_spec = None
    /\ stack = <<>>
    /\ root = <<>>
    /\ dirs = <<>>
    /\ files = <<>>
    /\ fidx = 0
    /\ dir_files = <<>>
    /\ calls = 0
    /\ inputs = <<>>
    /\ returned = <<>>
    /\ found_at = <<>>
    /\ scanned = {}
    /\ acc_at_cancel = <<>>

Init ==
    /\ fs_env \in FsFaultChoices
    /\ selected_paths \in SelectionChoices
    /\ fs_env # NoFaults => selected_paths \in FaultySelections
    /\ filter_settings \in FilterChoices
    /\ IdleWalker
    /\ NoWorker
    /\ NoCaller
    /\ NoMatchCall
    /\ NoReadCall
    /\ processed_count = 0
    /\ NoGeneration
    /\ NoLegacyRun

\* ProjectFileWalker.cancel
Cancel ==
    /\ UNCHANGED <<worker_vars, match_vars, caller_vars, env_vars, other_vars>>
    /\ ~is_cancelled
    /\ pc # "returned"
    /\ is_cancelled' = TRUE
    /\ acc_at_cancel' = Accumulated
    /\ UNCHANGED <<config_vars, pc, idx, discovered_files, seen, walk_vars,
                   calls, inputs, returned, found_at, scanned>>

\* The cleared frame of _discover_directory_recursive.
NoWalk ==
    /\ dir_path' = <<>>
    /\ current_dir_ignore_spec' = None
    /\ stack' = <<>>
    /\ root' = <<>>
    /\ dirs' = <<>>
    /\ files' = <<>>
    /\ fidx' = 0
    /\ dir_files' = <<>>

\* Mutant of BeginDiscovery: the seen set outlives the call.
BeginDiscovery_seen_kept(paths) ==
    /\ calls' = calls + 1
    /\ inputs' = Append(inputs, paths)
    /\ selected_paths' = SortPaths(paths)
    /\ discovered_files' = <<>>
    /\ seen' = seen
    /\ found_at' = <<>>
    /\ scanned' = {}
    /\ idx' = 1
    /\ pc' = "path_loop"
    /\ NoWalk

\* discover_files, entry: fresh result list and seen set, the selected
\* paths sorted in place.
BeginDiscovery(paths) ==
    /\ calls' = calls + 1
    /\ inputs' = Append(inputs, paths)
    /\ selected_paths' = SortPaths(paths)
    /\ discovered_files' = <<>>
    /\ seen' = {}
    /\ found_at' = <<>>
    /\ scanned' = {}
    /\ idx' = 1
    /\ pc' = "path_loop"
    /\ NoWalk

\* The first call of discover_files.
DiscoverFiles ==
    /\ UNCHANGED <<worker_vars, match_vars, caller_vars, env_vars, other_vars>>
    /\ pc = "idle"
    /\ BeginDiscovery(selected_paths)
    /\ UNCHANGED <<filter_settings, is_cancelled, returned, acc_at_cancel>>

\* A further call on the same walker: with the configuration as the call
\* before left it, or with the caller's list given in another order.
DiscoverFilesAgain ==
    /\ UNCHANGED <<worker_vars, match_vars, caller_vars, env_vars, other_vars>>
    /\ pc = "returned"
    /\ ~is_cancelled
    /\ calls < MaxCalls
    /\ \E paths \in {selected_paths} \cup Orderings(inputs[1]) :
           BeginDiscovery(paths)
    /\ UNCHANGED <<filter_settings, is_cancelled, returned, acc_at_cancel>>

\* Top of `for path in selected_paths`: the loop ends when the list is
\* exhausted or the flag is set, and discover_files returns; otherwise the
\* progress callback (the worker's, when a worker runs the walk) is called.
PathLoop ==
    /\ pc = "path_loop"
    /\ IF idx > Len(selected_paths) \/ is_cancelled
       THEN /\ pc' = "returned"
            /\ returned' = Append(returned, <<discovered_files, Len(discovered_files)>>)
            /\ UNCHANGED signals
       ELSE /\ pc' = "path_body"
            /\ signals' = IF wpc = "none" THEN signals
                          ELSE Append(signals, <<"discovery_progress",
                                                 Name(selected_paths[idx])>>)
            /\ UNCHANGED returned
    /\ UNCHANGED <<config_vars, is_cancelled, idx, discovered_files, seen, walk_vars,
                   calls, inputs, found_at, scanned, acc_at_cancel>>
    /\ UNCHANGED <<wpc, worker_cancelled, temp_path, temp_exists, output, sidx,
                   processed_files, io_fault, match_vars, caller_vars, env_vars, other_vars>>

\* Body of the loop over selected paths: stat the path; a regular file is
\* tested and appended, a directory that is not ignored is walked.
PathBody ==
    /\ UNCHANGED <<worker_vars, match_vars, caller_vars, env_vars, other_vars>>
    /\ pc = "path_body"
    /\ LET path == selected_paths[idx]
           st == Stat(path)
       IN IF StatFails(path)
          THEN /\ idx' = idx + 1
               /\ pc' = "path_loop"
               /\ UNCHANGED <<discovered_files, seen, walk_vars, found_at>>
          ELSE IF st.mode = "file"
          THEN /\ IF should_include_file(path, st, seen, None, <<>>)
                  THEN /\ discovered_files' = Append(discovered_files, path)
                       /\ seen' = seen \cup {dev_ino(st)}
                       /\ found_at' = Append(found_at, idx)
                  ELSE UNCHANGED <<discovered_files, seen, found_at>>
               /\ idx' = idx + 1
               /\ pc' = "path_loop"
               /\ UNCHANGED walk_vars
          ELSE IF st.mode = "dir" /\ ~is_directory_ignored(path)
          THEN /\ dir_path' = path
               /\ current_dir_ignore_spec' =
                      load_ignore_patterns(path, filter_settings.use_gitignore,
                                           filter_settings.use_npmignore,
                                           filter_settings.use_dockerignore)
               /\ stack' = <<path>>
               /\ dir_files' = <<>>
               /\ pc' = "walk_next"
               /\ UNCHANGED <<idx, discovered_files, seen, root, dirs, files, fidx,
                              found_at>>
          ELSE /\ idx' = idx + 1
               /\ pc' = "path_loop"
               /\ UNCHANGED <<discovered_files, seen, walk_vars, found_at>>
    /\ UNCHANGED <<config_vars, is_cancelled, history_vars, scanned>>

\* _discover_directory_recursive returns dir_files and discover_files
\* extends its list with them.
ReturnFromWalk ==
    /\ discovered_files' = discovered_files \o dir_files
    /\ found_at' = found_at \o [k \in 1..Len(dir_files) |-> idx]
    /\ idx' = idx + 1
    /\ pc' = "path_loop"
    /\ NoWalk

\* os.walk resumes: the subdirectories left in dirs that are no symbolic
\* links are queued, depth first, and the next directory is listed.
WalkNext ==
    /\ UNCHANGED <<worker_vars, match_vars, caller_vars, env_vars, other_vars>>
    /\ pc = "walk_next"
    /\ LET pending == [k \in 1..Len(dirs) |-> root \o <<dirs[k]>>]
           entered == SelectSeq(pending, LAMBDA d : ~IsLink(d)) \o stack
           unlistable == Unlistable(entered)
           queue == SubSeq(entered, Len(unlistable) + 1, Len(entered))
       IN IF queue = <<>>
          THEN /\ ReturnFromWalk
               /\ scanned' = scanned \cup Range(unlistable)
          ELSE LET top == Head(queue)
                   names == ScanDir(top)
               IN /\ root' = top
                  /\ dirs' = SelectSeq(names, LAMBDA n : IsDir(top \o <<n>>))
                  /\ files' = SelectSeq(names, LAMBDA n : ~IsDir(top \o <<n>>))
                  /\ stack' = Tail(queue)
                  /\ scanned' = scanned \cup Range(unlistable) \cup {top}
                  /\ pc' = "walk_check"
                  /\ UNCHANGED <<idx, discovered_files, seen, dir_path,
                                 current_dir_ignore_spec, fidx, dir_files, found_at>>
    /\ UNCHANGED <<config_vars, is_cancelled, seen, history_vars>>

\* Top of `for root, dirs, files in os.walk(...)`.
WalkCheck ==
    /\ UNCHANGED <<worker_vars, match_vars, caller_vars, env_vars, other_vars>>
    /\ pc = "walk_check"
    /\ IF is_cancelled
       THEN ReturnFromWalk
       ELSE /\ pc' = "walk_body"
            /\ UNCHANGED <<idx, discovered_files, walk_vars, found_at>>
    /\ UNCHANGED <<config_vars, is_cancelled, seen, history_vars, scanned>>

\* Body of the loop over directory levels: sort, make the root relative,
\* prune the subdirectories.
WalkBody ==
    /\ UNCHANGED <<worker_vars, match_vars, caller_vars, env_vars, other_vars>>
    /\ pc = "walk_body"
    /\ IF ~CanRelativeTo(root, BaseDirectory)
       THEN /\ dirs' = <<>>
            /\ pc' = "walk_next"
            /\ UNCHANGED <<files, fidx>>
       ELSE /\ dirs' = filter_directories(SortNames(dirs),
                                          RelativeTo(root, BaseDirectory),
                                          RelativeTo(root, dir_path),
                                          current_dir_ignore_spec)
            /\ files' = SortNames(files)
            /\ fidx' = 1
            /\ pc' = "file_loop"
    /\ UNCHANGED <<config_vars, is_cancelled, idx, discovered_files, seen, dir_path,
                   current_dir_ignore_spec, stack, root, dir_files, history_vars,
                   found_at, scanned>>

\* Mutant of FileLoop: the flag is not looked at.
FileLoop_flag_ignored ==
    /\ UNCHANGED <<worker_vars, match_vars, caller_vars, env_vars, other_vars>>
    /\ pc = "file_loop"
    /\ IF fidx > Len(files)
       THEN pc' = "walk_next"
       ELSE pc' = "file_body"
    /\ UNCHANGED <<config_vars, is_cancelled, idx, discovered_files, seen, walk_vars,
                   history_vars, found_at, scanned>>

\* Top of `for file_name in files`.
FileLoop ==
    /\ UNCHANGED <<worker_vars, match_vars, caller_vars, env_vars, other_vars>>
    /\ pc = "file_loop"
    /\ IF fidx > Len(files) \/ is_cancelled
       THEN pc' = "walk_next"
       ELSE pc' = "file_body"
    /\ UNCHANGED <<config_vars, is_cancelled, idx, discovered_files, seen, walk_vars,
                   history_vars, found_at, scanned>>

\* Mutant of FileBody: the error of a failing stat is not caught in the
\* loop; it ends the walk of the selected directory in discover_files, and
\* what the walk had found is lost.
FileBody_error_not_caught ==
    /\ UNCHANGED <<worker_vars, match_vars, caller_vars, env_vars, other_vars>>
    /\ pc = "file_body"
    /\ LET full_path == root \o <<files[fidx]>>
           st == Stat(full_path)
       IN IF StatFails(full_path)
          THEN /\ idx' = idx + 1
               /\ pc' = "path_loop"
               /\ NoWalk
               /\ UNCHANGED seen
          ELSE /\ IF should_include_file(full_path, st, seen, current_dir_ignore_spec,
                                         RelativeTo(root, dir_path))
                  THEN /\ dir_files' = Append(dir_files, full_path)
                       /\ seen' = seen \cup {dev_ino(st)}
                  ELSE UNCHANGED <<dir_files, seen>>
               /\ fidx' = fidx + 1
               /\ pc' = "file_loop"
               /\ UNCHANGED <<idx, dir_path, current_dir_ignore_spec, stack, root,
                              dirs, files>>
    /\ UNCHANGED <<config_vars, is_cancelled, discovered_files, history_vars,
                   found_at, scanned>>

\* Body of the loop over files: stat, test, append.
FileBody ==
    /\ UNCHANGED <<worker_vars, match_vars, caller_vars, env_vars, other_vars>>
    /\ pc = "file_body"
    /\ LET full_path == root \o <<files[fidx]>>
           st == Stat(full_path)
       IN IF ~StatFails(full_path)
             /\ should_include_file(full_path, st, seen, current_dir_ignore_spec,
                                    RelativeTo(root, dir_path))
          THEN /\ dir_files' = Append(dir_files, full_path)
               /\ seen' = seen \cup {dev_ino(st)}
          ELSE UNCHANGED <<dir_files, seen>>
    /\ fidx' = fidx + 1
    /\ pc' = "file_loop"
    /\ UNCHANGED <<config_vars, is_cancelled, idx, discovered_files, dir_path,
                   current_dir_ignore_spec, stack, root, dirs, files, history_vars,
                   found_at, scanned>>

\* The environment, between the first call of discover_files and the
\* next: every entry that failed is removed, and nothing fails any more.
RemoveFailing ==
    /\ pc = "returned" /\ calls = 1 /\ ~is_cancelled
    /\ fs_env.failing \cup fs_env.unreadable # {}
    /\ fs_env' = [failing |-> {}, unreadable |-> {},
                  removed |-> fs_env.failing \cup fs_env.unreadable]
    /\ UNCHANGED <<config_vars, is_cancelled, pc, idx, discovered_files, seen,
                   walk_vars, history_vars, found_at, scanned, worker_vars,
                   match_vars, caller_vars, other_vars>>

\* The last list discover_files returned.
LastReturned == returned[Len(returned)][1]

Next ==
    \/ DiscoverFiles
    \/ DiscoverFilesAgain
    \/ PathLoop
    \/ PathBody
    \/ WalkNext
    \/ WalkCheck
    \/ WalkBody
    \/ FileLoop
    \/ FileBody
    \/ Cancel
    \/ RemoveFailing

Spec == Init /\ [][Next]_vars

(***************************************************************************)
(* GeneratorWorker.run, driving a walker of its own                        *)
(***************************************************************************)

\* The bytes of the regular files, every run of ASCII letters abridged to
\* one letter: plain ASCII, UTF-8 with a byte order mark (/w/B.py), Latin-1
\* (/w/sub/b.py), UTF-8 with a two-byte character (/w/sub/d/f.py),
\* white space only (/w/sub/notes), a byte that CP1252 does not define
\* (/w/license), a NUL byte (/w/sub/n.py, /w/sub/d/t.py), nothing (/w/e.py).
Bytes(filepath) ==
    LET n == Resolve(filepath)
    IN IF n.kind # "file" \/ n.size = 0 THEN <<>>
       ELSE CASE n.path = <<nW, nBup>> -> <<239, 187, 191, 98>>
              [] n.path = <<nW, nSub, nB>> -> <<98, 233>>
              [] n.path = <<nW, nSub, nD, nF>> -> <<102, 195, 169>>
              [] n.path = <<nW, nSub, nNotes>> -> <<32, 10>>
              [] n.path = <<nW, nLicense>> -> <<108, 129>>
              [] n.nul > 0 -> <<110, 0>>
              [] OTHER -> <<97>>

\* bytes.decode('utf-8', errors='strict'): the code points, or a
\* UnicodeDecodeError (ok false) on a byte sequence that is no well-formed
\* UTF-8 (stray or missing continuation bytes, overlong forms, surrogates).
RECURSIVE decode_utf8(_)
decode_utf8(bs) ==
    LET Cont(k) == k <= Len(bs) /\ bs[k] >= 128 /\ bs[k] <= 191
        Rest(k, cp) == LET r == decode_utf8(SubSeq(bs, k, Len(bs)))
                       IN [ok |-> r.ok, text |-> <<cp>> \o r.text]
        Bad == [ok |-> FALSE, text |-> <<>>]
    IN IF bs = <<>> THEN [ok |-> TRUE, text |-> <<>>]
       ELSE IF bs[1] < 128 THEN Rest(2, bs[1])
       ELSE IF bs[1] >= 194 /\ bs[1] <= 223 /\ Cont(2)
            THEN Rest(3, (bs[1] - 192) * 64 + (bs[2] - 128))
       ELSE IF bs[1] >= 224 /\ bs[1] <= 239 /\ Cont(2) /\ Cont(3)
            THEN LET cp == (bs[1] - 224) * 4096 + (bs[2] - 128) * 64 + (bs[3] - 128)
                 IN IF cp < 2048 \/ (cp >= 55296 /\ cp <= 57343) THEN Bad
                    ELSE Rest(4, cp)
       ELSE IF bs[1] >= 240 /\ bs[1] <= 244 /\ Cont(2) /\ Cont(3) /\ Cont(4)
            THEN LET cp == (bs[1] - 240) * 262144 + (bs[2] - 128) * 4096
                           + (bs[3] - 128) * 64 + (bs[4] - 128)
                 IN IF cp < 65536 \/ cp > 1114111 THEN Bad ELSE Rest(5, cp)
       ELSE Bad

\* The code points CP1252 gives the bytes 128..159 (0: undefined).
cp1252_high ==
    <<8364, 0, 8218, 402, 8222, 8230, 8224, 8225, 710, 8240, 352, 8249, 338, 0, 381, 0,
      0, 8216, 8217, 8220, 8221, 8226, 8211, 8212, 732, 8482, 353, 8250, 339, 0, 382, 376>>

\* bytes.decode(encoding, errors='strict') for the encodings of the default
\* list.
decode(bs, encoding) ==
    CASE encoding = "utf-8" -> decode_utf8(bs)
      [] encoding = "utf-8-sig" ->
             IF Len(bs) >= 3 /\ SubSeq(bs, 1, 3) = <<239, 187, 191>>
             THEN decode_utf8(SubSeq(bs, 4, Len(bs)))
             ELSE decode_utf8(bs)
      [] encoding \in {"latin-1", "iso-8859-1"} -> [ok |-> TRUE, text |-> bs]
      [] encoding = "cp1252" ->
             IF \E k \in 1..Len(bs) :
                    bs[k] >= 128 /\ bs[k] <= 159 /\ cp1252_high[bs[k] - 127] = 0
             THEN [ok |-> FALSE, text |-> <<>>]
             ELSE [ok |-> TRUE,
                   text |-> [k \in 1..Len(bs) |->
                                IF bs[k] >= 128 /\ bs[k] <= 159
                                THEN cp1252_high[bs[k] - 127] ELSE bs[k]]]
      [] encoding = "ascii" ->
             IF \E k \in 1..Len(bs) : bs[k] >= 128
             THEN [ok |-> FALSE, text |-> <<>>]
             ELSE [ok |-> TRUE, text |-> bs]

\* `not content.strip()`: every character is white space (str.isspace).
blank(text) ==
    \A k \in 1..Len(text) :
        text[k] \in (9..13) \cup (28..32) \cup {133, 160, 5760, 8232, 8233, 8239, 8287, 12288}
                    \cup (8192..8202)

\* FileReader.__init__: the default list of encodings.
DefaultEncodings == <<"utf-8", "utf-8-sig", "latin-1", "iso-8859-1", "cp1252", "ascii">>

\* FileReader.get_file_content, the loop over the encodings from position k:
\* read_text raises OSError at attempt read_error_at (0: never) or when the
\* file cannot be opened; tried lists the encodings read_text was called
\* with.
NoContent == [present |-> FALSE, text |-> <<>>]

\* Mutant of try_encodings: after a read error the next encoding is tried.
RECURSIVE try_encodings_after_read_error(_, _, _, _)
try_encodings_after_read_error(filepath, encodings, k, read_error_at) ==
    IF k > Len(encodings)
    THEN [content |-> NoContent, tried |-> encodings, raised |-> FALSE]
    ELSE LET d == decode(Bytes(filepath), encodings[k])
             now == SubSeq(encodings, 1, k)
         IN IF OpenFails(filepath) \/ read_error_at = k \/ ~d.ok
            THEN try_encodings_after_read_error(filepath, encodings, k + 1, read_error_at)
            ELSE IF blank(d.text)
            THEN [content |-> NoContent, tried |-> now, raised |-> FALSE]
            ELSE [content |-> [present |-> TRUE, text |-> d.text], tried |-> now,
                  raised |-> FALSE]

RECURSIVE try_encodings(_, _, _, _)
try_encodings(filepath, encodings, k, read_error_at) ==
    IF k > Len(encodings)
    THEN [content |-> NoContent, tried |-> encodings, raised |-> FALSE]
    ELSE LET d == decode(Bytes(filepath), encodings[k])
             now == SubSeq(encodings, 1, k)
         IN IF OpenFails(filepath) \/ read_error_at = k
            THEN [content |-> NoContent, tried |-> now, raised |-> FALSE]
            ELSE IF ~d.ok
            THEN try_encodings(filepath, encodings, k + 1, read_error_at)
            ELSE IF blank(d.text)
            THEN [content |-> NoContent, tried |-> now, raised |-> FALSE]
            ELSE [content |-> [present |-> TRUE, text |-> d.text], tried |-> now,
                  raised |-> FALSE]

\* FileReader.get_file_content.  stat_error is what filepath.stat() does:
\* "none", "caught" (FileNotFoundError or PermissionError, which the
\* method catches) or "other" (another OSError, which leaves the method).
\* A MemoryError of read_text is answered by reading in chunks with the
\* same encoding, which decodes to the same text.
get_file_content(filepath, encodings, stat_error, read_error_at) ==
    IF stat_error = "other"
    THEN [content |-> NoContent, tried |-> <<>>, raised |-> TRUE]
    ELSE IF is_binary_file(filepath)
    THEN [content |-> NoContent, tried |-> <<>>, raised |-> FALSE]
    ELSE try_encodings(filepath, encodings, 1, read_error_at)

\* The errors the environment can raise in run: creating the temporary
\* file, writing the header, writing a file section, writing the footer,
\* removing the temporary file.
Faults == {"tempfile", "write_header", "section", "footer", "unlink"}

\* The environments a worker runs in: at most one failing write, and a
\* temporary file that can or cannot be removed.
FaultChoices ==
    { fs \in SUBSET Faults : Cardinality(fs \ {"unlink"}) <= 1 }

\* run: f"Error during processing: {e}"
ErrorMessage(e) == <<"Error during processing: ", e>>
Cancelled == <<"Operation cancelled.">>
NoMatch == <<"No matching files found.">>
NoError == <<>>

\* The selections and settings a worker is started with.
WorkerSelections ==
    { <<<<nW, nSub>>>>, <<<<nW, nE>>>>, <<<<nW, nA>>, <<nW, nSub>>>> }
WorkerFilterChoices ==
    { FilterSettings({"Python"}, FALSE, None, None, FALSE),
      FilterSettings({"Documentation"}, TRUE, None, PathSpec({NamePattern(nA)}), TRUE) }

InitWorker ==
    /\ fs_env \in {NoFaults, [NoFaults EXCEPT !.unreadable = {<<nW, nSub, nB>>}]}
    /\ selected_paths \in WorkerSelections
    /\ filter_settings \in WorkerFilterChoices
    /\ IdleWalker
    /\ wpc = "created"
    /\ worker_cancelled = FALSE
    /\ signals = <<>>
    /\ temp_path = ""
    /\ temp_exists = FALSE
    /\ output = <<>>
    /\ sidx = 0
    /\ processed_files = <<>>
    /\ io_fault \in FaultChoices
    /\ NoCaller
    /\ NoMatchCall
    /\ NoReadCall
    /\ processed_count = 0
    /\ NoGeneration
    /\ NoLegacyRun

\* GeneratorWorker.cancel
WorkerCancel ==
    /\ wpc \notin {"none", "done"}
    /\ ~worker_cancelled
    /\ worker_cancelled' = TRUE
    /\ UNCHANGED <<config_vars, is_cancelled, pc, idx, discovered_files, seen,
                   walk_vars, history_vars, found_at, scanned, wpc, signals,
                   temp_path, temp_exists, output, sidx, processed_files, io_fault,
                   match_vars, caller_vars, env_vars, other_vars>>

walker_vars == <<config_vars, is_cancelled, pc, idx, discovered_files, seen,
                 walk_vars, history_vars, found_at, scanned>>

\* run, start: the status signal, a new ProjectFileWalker, and the call of
\* discover_files.
RunStart ==
    /\ wpc = "created"
    /\ wpc' = "discovering"
    /\ signals' = Append(signals, <<"status_updated", "Scanning files...">>)
    /\ BeginDiscovery(selected_paths)
    /\ UNCHANGED <<filter_settings, is_cancelled, returned, acc_at_cancel,
                   worker_cancelled, temp_path, temp_exists, output, sidx,
                   processed_files, io_fault, match_vars, caller_vars, env_vars, other_vars>>

\* The end of run on every way out: the finished signal, then, in the
\* finally clause, the status signal.
Finish(path, file_list, error) ==
    /\ signals' = signals \o << <<"finished", path, file_list, error>>,
                               <<"status_updated", "Finished">> >>
    /\ wpc' = "done"

\* run, `except Exception`, entered with error e while the temporary file
\* exists or not: the file is removed and the error reported.  The unlink
\* is not guarded: when it raises, the error leaves run, and only the
\* finally clause emits its status signal.
HandleException(e, file_exists) ==
    IF file_exists /\ "unlink" \in io_fault
    THEN /\ signals' = Append(signals, <<"status_updated", "Finished">>)
         /\ wpc' = "done"
         /\ temp_exists' = file_exists
    ELSE /\ Finish("", <<>>, ErrorMessage(e))
         /\ temp_exists' = FALSE

\* run, after discover_files has returned: cancelled, nothing found, or on
\* to the header.
AfterDiscovery ==
    /\ wpc = "discovering" /\ pc = "returned"
    /\ IF worker_cancelled
       THEN Finish("", <<>>, Cancelled)
       ELSE IF LastReturned = <<>>
       THEN Finish("", <<>>, NoMatch)
       ELSE /\ signals' = Append(signals, <<"pre_count_finished", Len(LastReturned)>>)
            /\ wpc' = "header"
    /\ UNCHANGED <<walker_vars, worker_cancelled, temp_path, temp_exists, output,
                   sidx, processed_files, io_fault, match_vars, caller_vars, env_vars, other_vars>>

\* The environment, between discovery and streaming: a file of the list
\* discover_files returned can no longer be opened.
BecomeUnreadable ==
    /\ wpc = "header"
    /\ \A f \in Range(LastReturned) : ~OpenFails(f)
    /\ \E f \in Range(LastReturned) :
           fs_env' = [fs_env EXCEPT !.unreadable = @ \cup {f}]
    /\ UNCHANGED <<walker_vars, worker_vars, match_vars, caller_vars, other_vars>>

\* run: the header is built and the status signal emitted.
BuildHeader ==
    /\ wpc = "header"
    /\ signals' = Append(signals, <<"status_updated", "Processing files...">>)
    /\ wpc' = "open_temp"
    /\ UNCHANGED <<walker_vars, worker_cancelled, temp_path, temp_exists, output,
                   sidx, processed_files, io_fault, match_vars, caller_vars, env_vars, other_vars>>

\* run: the temporary file is created and the header written to it.
OpenTemp ==
    /\ wpc = "open_temp"
    /\ IF "tempfile" \in io_fault
       THEN /\ HandleException("tempfile", FALSE)
            /\ UNCHANGED <<temp_path, output, sidx>>
       ELSE IF "write_header" \in io_fault
       THEN /\ HandleException("write_header", TRUE)
            /\ temp_path' = "tmp.md"
            /\ UNCHANGED <<output, sidx>>
       ELSE /\ temp_path' = "tmp.md"
            /\ temp_exists' = TRUE
            /\ output' = <<"header">>
            /\ sidx' = 1
            /\ wpc' = "streaming"
            /\ UNCHANGED signals
    /\ UNCHANGED <<walker_vars, worker_cancelled, processed_files, io_fault, match_vars, caller_vars, env_vars, other_vars>>

\* Mutant of StreamFile: a file whose content is absent is counted too.
StreamFile_counts_absent ==
    /\ wpc = "streaming"
    /\ sidx <= Len(LastReturned)
    /\ LET path == LastReturned[sidx]
       IN /\ output' = Append(output, <<"section", path>>)
          /\ processed_files' = Append(processed_files, path)
          /\ processed_count' = processed_count + 1
          /\ UNCHANGED signals
    /\ sidx' = sidx + 1
    /\ UNCHANGED <<walker_vars, wpc, worker_cancelled, temp_path, temp_exists,
                   io_fault, match_vars, caller_vars, env_vars, read_args, read_result, gui_vars,
                   legacy_vars>>

\* stream_files, one file: absent content is skipped; a section is written,
\* the file counted and the progress reported (the worker's callback emits
\* min(pct, 99) unless cancelled); an error while handling the file skips
\* it: nothing of its section has been written when get_file_content or
\* the first write raised, a part of it when a later write raised.
StreamFile ==
    /\ wpc = "streaming"
    /\ sidx <= Len(LastReturned)
    /\ LET path == LastReturned[sidx]
           content == get_file_content(path, DefaultEncodings, "none", 0).content
           pct == (sidx * 100) \div Len(LastReturned)
       IN IF ~content.present
          THEN UNCHANGED <<output, processed_files, processed_count, signals>>
          ELSE IF "section" \in io_fault /\ sidx = 1
          THEN /\ output' \in {output, Append(output, <<"partial", path>>)}
               /\ UNCHANGED <<processed_files, processed_count, signals>>
          ELSE /\ output' = Append(output, <<"section", path>>)
               /\ processed_count' = processed_count + 1
               /\ processed_files' = Append(processed_files, path)
               /\ signals' = IF worker_cancelled THEN signals
                             ELSE Append(signals, <<"progress_updated",
                                                    IF pct < 99 THEN pct ELSE 99>>)
    /\ sidx' = sidx + 1
    /\ UNCHANGED <<walker_vars, wpc, worker_cancelled, temp_path, temp_exists,
                   io_fault, match_vars, caller_vars, env_vars, read_args, read_result, gui_vars,
                   legacy_vars>>

\* stream_files, after the loop: the footer is written and the file closed.
StreamFooter ==
    /\ wpc = "streaming"
    /\ sidx > Len(LastReturned)
    /\ IF "footer" \in io_fault
       THEN /\ HandleException("footer", temp_exists)
            /\ UNCHANGED output
       ELSE /\ output' = Append(output, <<"footer">>)
            /\ wpc' = "after_stream"
            /\ UNCHANGED <<signals, temp_exists>>
    /\ UNCHANGED <<walker_vars, worker_cancelled, temp_path, sidx, processed_files,
                   io_fault, match_vars, caller_vars, env_vars, other_vars>>

\* Mutant of AfterStream: the cancelled run leaves its temporary file.
AfterStream_temp_kept ==
    /\ wpc = "after_stream"
    /\ IF worker_cancelled
       THEN /\ Finish("", <<>>, Cancelled)
            /\ UNCHANGED temp_exists
       ELSE /\ wpc' = "success"
            /\ UNCHANGED <<signals, temp_exists>>
    /\ UNCHANGED <<walker_vars, worker_cancelled, temp_path, output, sidx,
                   processed_files, io_fault, match_vars, caller_vars, env_vars, other_vars>>

\* run, after streaming, `if self._is_cancelled`: cancelled (the temporary
\* file is removed), or on to the success signals.
AfterStream ==
    /\ wpc = "after_stream"
    /\ IF worker_cancelled
       THEN IF temp_exists /\ "unlink" \in io_fault
            THEN HandleException("unlink", temp_exists)
            ELSE /\ temp_exists' = FALSE
                 /\ Finish("", <<>>, Cancelled)
       ELSE /\ wpc' = "success"
            /\ UNCHANGED <<signals, temp_exists>>
    /\ UNCHANGED <<walker_vars, worker_cancelled, temp_path, output, sidx,
                   processed_files, io_fault, match_vars, caller_vars, env_vars, other_vars>>

\* run, after the check of the flag: progress 100, the finished signal of
\* success, and the status signal of the finally clause.
EmitSuccess ==
    /\ wpc = "success"
    /\ signals' = signals \o << <<"progress_updated", 100>>,
                               <<"finished", temp_path, processed_files, NoError>>,
                               <<"status_updated", "Finished">> >>
    /\ wpc' = "done"
    /\ UNCHANGED <<walker_vars, worker_cancelled, temp_path, temp_exists, output, sidx,
                   processed_files, io_fault, match_vars, caller_vars, env_vars, other_vars>>

(***************************************************************************)
(* The callers of the worker: the slot of the main window and the CLI      *)
(***************************************************************************)

\* "cancel" in error_message.lower(): of the messages run emits, true of
\* 'Operation cancelled.' only.
MentionsCancel(error_message) == error_message = Cancelled

\* handle_generation_finished: the format given to the progress bar and
\* the dialog shown.
handle_generation_finished(temp_file_path, file_list, error_message) ==
    [progress_format |->
         IF error_message = NoError THEN "Finalizing..."
         ELSE IF MentionsCancel(error_message) THEN "Cancelled"
         ELSE "Error",
     dialog |->
         IF error_message # NoError
         THEN IF MentionsCancel(error_message) THEN "none"
              ELSE "warning: Generation Error"
         ELSE IF temp_file_path = "" THEN "information: Finished"
         ELSE "save"]

\* run_cli_mode after the event loop: the exit codes it can return for
\* what on_finished stored (moving the output can succeed or fail).
PROCESSING_ERROR == 4
OUTPUT_FILE_ERROR == 5
SUCCESS == 0
cli_exit_codes(temp_file, error) ==
    IF error # <<>> THEN {PROCESSING_ERROR}
    ELSE IF temp_file = "" THEN {PROCESSING_ERROR}
    ELSE {SUCCESS, OUTPUT_FILE_ERROR}

\* The last finished signal emitted.
LastFinished == LET fs == SelectSeq(signals, LAMBDA x : x[1] = "finished")
                IN fs[Len(fs)]

\* The slot of the main window receives the finished signal.
HandleGenerationFinished ==
    /\ wpc = "done" /\ caller_outcome = <<>>
    /\ \E k \in 1..Len(signals) : signals[k][1] = "finished"
    /\ caller_outcome' =
           <<"gui", handle_generation_finished(LastFinished[2], LastFinished[3],
                                               LastFinished[4])>>
    /\ UNCHANGED <<walker_vars, worker_vars, match_vars, env_vars, other_vars>>

\* The CLI's on_finished(temp_file, error_message) receives the finished
\* signal and run_cli_mode returns.  The slot takes two arguments: of the
\* three the signal carries it is handed the first two, or, with a worker
\* whose signal carries (temp_path, error), those two.
CliFinished ==
    /\ wpc = "done" /\ caller_outcome = <<>>
    /\ \E k \in 1..Len(signals) : signals[k][1] = "finished"
    /\ \E error \in {LastFinished[3], LastFinished[4]} :
       \E code \in cli_exit_codes(LastFinished[2], error) :
           caller_outcome' = <<"cli", code>>
    /\ UNCHANGED <<walker_vars, worker_vars, match_vars, env_vars, other_vars>>

NextWorker ==
    \/ RunStart
    \/ PathLoop
    \/ PathBody
    \/ WalkNext
    \/ WalkCheck
    \/ WalkBody
    \/ FileLoop
    \/ FileBody
    \/ AfterDiscovery
    \/ BecomeUnreadable
    \/ BuildHeader
    \/ OpenTemp
    \/ StreamFile
    \/ StreamFooter
    \/ AfterStream
    \/ EmitSuccess
    \/ WorkerCancel
    \/ HandleGenerationFinished
    \/ CliFinished

SpecWorker == InitWorker /\ [][NextWorker]_vars

(***************************************************************************)
(* matches_file_type on its own                                            *)
(***************************************************************************)

\* The regular files of the filesystem.
FilePaths == {p \in {Entries[k].path : k \in 1..Len(Entries)} : Node(p).kind = "file"}

\* The entries of the language definitions that are extensions, as written.
DefinedExtensions(categories) ==
    {x \in UNION {LanguageExtensions[c] : c \in categories} : StartsWithDot(x)}

\* The entries that are file names, lower-cased.
DefinedFilenames(categories) ==
    {Lower(x) : x \in {y \in UNION {LanguageExtensions[c] : c \in categories} :
                          ~StartsWithDot(y)}}

\* CLIConfig._calculate_selected_files: the extensions of the included
\* types (all, when none is named) and the extensions given on the command
\* line, with a dot put in front where it is missing, less those of the
\* excluded types and the excluded extensions.  Extensions are kept as
\* written; only file names are lower-cased.
WithDot(ext) == IF StartsWithDot(ext) THEN ext ELSE <<".">> \o ext
calculate_selected_files(include_types, include_extensions, exclude_types, exclude_extensions) ==
    LET included == IF include_types # {} THEN include_types
                    ELSE DOMAIN LanguageExtensions
    IN [selected_exts |->
            ((DefinedExtensions(included) \cup {WithDot(e) : e \in include_extensions})
                 \ DefinedExtensions(exclude_types))
                 \ {WithDot(e) : e \in exclude_extensions},
        selected_names |-> DefinedFilenames(included) \ DefinedFilenames(exclude_types)]

\* CLIConfig.to_filter_settings: the sets handed to matches_file_type.
to_filter_settings(include_types, include_extensions, exclude_types, exclude_extensions) ==
    [all_exts |-> DefinedExtensions(DOMAIN LanguageExtensions),
     all_names |-> DefinedFilenames(DOMAIN LanguageExtensions)]
        @@ calculate_selected_files(include_types, include_extensions, exclude_types,
                                    exclude_extensions)

\* What is given with --include-extensions and --exclude-extensions.
CliExtensions == { {}, {<<"P", "Y">>}, {dotMd} }

\* The sets of the command line configurations.
CliFilterSets ==
    { to_filter_settings(it, ie, et, ee) :
        it \in SUBSET (DOMAIN LanguageExtensions), ie \in CliExtensions,
        et \in {{}, {"Documentation"}}, ee \in {{}, {dotMd}} }

\* The sets of the main window (get_selected_filter_sets and
\* build_filter_sets), for any selection of known entries.
GuiFilterSets ==
    [selected_exts : SUBSET AllKnownExtensions,
     selected_names : SUBSET (AllKnownFilenames \cup {nNotes}),
     all_exts : {AllKnownExtensions},
     all_names : {AllKnownFilenames}]

InitMatch ==
    /\ fs_env = NoFaults
    /\ NoCaller
    /\ \E filepath \in FilePaths, sets \in GuiFilterSets \cup CliFilterSets,
          handle_other \in BOOLEAN :
           match_args = [filepath |-> filepath, handle_other |-> handle_other] @@ sets
    /\ match_result = <<>>
    /\ selected_paths = <<>>
    /\ filter_settings = FilterSettings({}, FALSE, None, None, FALSE)
    /\ IdleWalker
    /\ NoWorker
    /\ NoReadCall
    /\ processed_count = 0
    /\ NoGeneration
    /\ NoLegacyRun

\* One call of matches_file_type.
ApplyMatchesFileType ==
    /\ match_result = <<>>
    /\ match_args # <<>>
    /\ match_result' = <<matches_file_type(match_args.filepath, match_args.selected_exts,
                                           match_args.selected_names, match_args.all_exts,
                                           match_args.all_names, match_args.handle_other)>>
    /\ UNCHANGED <<config_vars, is_cancelled, pc, idx, discovered_files, seen,
                   walk_vars, history_vars, found_at, scanned, worker_vars, match_args, caller_vars, env_vars, other_vars>>

NextMatch == ApplyMatchesFileType

SpecMatch == InitMatch /\ [][NextMatch]_vars

(***************************************************************************)
(* FileReader.get_file_content on its own                                  *)
(***************************************************************************)

\* FileReader.__init__: `encodings or [the default list]`.
reader_encodings(encodings) == IF encodings = <<>> THEN DefaultEncodings ELSE encodings

\* The lists of encodings a caller supplies (the empty list stands for
\* none given).
EncodingChoices ==
    { <<>>, <<"ascii", "utf-8">>, <<"latin-1", "utf-8">>, <<"utf-8-sig", "cp1252">>,
      <<"utf-8", "cp1252", "ascii">>, <<"ascii">> }

InitRead ==
    /\ fs_env \in {NoFaults, [NoFaults EXCEPT !.unreadable = {<<nW, nSub, nB>>}]}
    /\ NoCaller
    /\ NoMatchCall
    /\ \E filepath \in FilePaths, encodings \in EncodingChoices,
          stat_error \in {"none", "caught", "other"}, read_error_at \in 0..2 :
           read_args = [filepath |-> filepath, encodings |-> encodings,
                        stat_error |-> stat_error, read_error_at |-> read_error_at]
    /\ read_result = <<>>
    /\ processed_count = 0
    /\ NoGeneration
    /\ NoLegacyRun
    /\ selected_paths = <<>>
    /\ filter_settings = FilterSettings({}, FALSE, None, None, FALSE)
    /\ IdleWalker
    /\ NoWorker

\* One call of get_file_content on a FileReader made with the encodings.
ApplyGetFileContent ==
    /\ read_result = <<>>
    /\ read_args # <<>>
    /\ read_result' = <<get_file_content(read_args.filepath,
                                         reader_encodings(read_args.encodings),
                                         read_args.stat_error, read_args.read_error_at)>>
    /\ UNCHANGED <<walker_vars, worker_vars, match_vars, caller_vars, env_vars, read_args,
                   processed_count, gui_vars, legacy_vars>>

NextRead == ApplyGetFileContent

SpecRead == InitRead /\ [][NextRead]_vars

(***************************************************************************)
(* The main window: Generate, Cancel, and the end of a generation          *)
(***************************************************************************)

\* Clicks in one behaviour.
MaxClicks == 4

\* Mutant of StartGenerateFile: is_generating is not looked at.
StartGenerateFile_unguarded ==
    /\ clicks < MaxClicks
    /\ clicks' = clicks + 1
    /\ \E has_types \in BOOLEAN, has_selection \in BOOLEAN :
           IF ~has_types \/ ~has_selection
           THEN UNCHANGED <<is_generating, worker, worker_thread, thread_state,
                            cancel_flags, ignored>>
           ELSE /\ is_generating' = TRUE
                /\ thread_state' = Append(thread_state, "running")
                /\ cancel_flags' = Append(cancel_flags, FALSE)
                /\ worker' = Len(thread_state) + 1
                /\ worker_thread' = Len(thread_state) + 1
                /\ UNCHANGED ignored
    /\ UNCHANGED <<walker_vars, worker_vars, match_vars, caller_vars, env_vars,
                   read_args, read_result, processed_count, legacy_vars, event_queue>>

\* start_generate_file: returns at once while is_generating, or when no
\* file type or no path is selected; otherwise sets is_generating, makes a
\* thread and a worker, connects the signals and starts the thread.
StartGenerateFile ==
    /\ clicks < MaxClicks
    /\ clicks' = clicks + 1
    /\ \E has_types \in BOOLEAN, has_selection \in BOOLEAN :
           IF is_generating
           THEN /\ ignored' = ignored + 1
                /\ UNCHANGED <<is_generating, worker, worker_thread, thread_state,
                               cancel_flags>>
           ELSE IF ~has_types \/ ~has_selection
           THEN UNCHANGED <<is_generating, worker, worker_thread, thread_state,
                            cancel_flags, ignored>>
           ELSE /\ is_generating' = TRUE
                /\ thread_state' = Append(thread_state, "running")
                /\ cancel_flags' = Append(cancel_flags, FALSE)
                /\ worker' = Len(thread_state) + 1
                /\ worker_thread' = Len(thread_state) + 1
                /\ UNCHANGED ignored
    /\ UNCHANGED <<walker_vars, worker_vars, match_vars, caller_vars, env_vars,
                   read_args, read_result, processed_count, legacy_vars, event_queue>>

\* cancel_generation: the worker's flag is set when there is a worker.
CancelGeneration ==
    /\ clicks < MaxClicks
    /\ clicks' = clicks + 1
    /\ cancel_flags' = IF worker # 0 THEN [cancel_flags EXCEPT ![worker] = TRUE]
                       ELSE cancel_flags
    /\ UNCHANGED <<walker_vars, worker_vars, match_vars, caller_vars, env_vars,
                   read_args, read_result, processed_count, legacy_vars, is_generating, worker,
                   worker_thread, thread_state, event_queue, ignored>>

\* GeneratorWorker.run returns in the worker thread: having emitted
\* finished, which queues handle_generation_finished and the thread's quit
\* for the GUI thread, or, when the except handler raised, without it.
RunReturns ==
    /\ \E g \in 1..Len(thread_state) :
           /\ thread_state[g] = "running"
           /\ \E emitted \in BOOLEAN :
                  IF emitted
                  THEN /\ thread_state' = [thread_state EXCEPT ![g] = "run_over"]
                       /\ event_queue' = event_queue \o
                              << <<"handle_generation_finished", g>>, <<"quit", g>> >>
                  ELSE /\ thread_state' = [thread_state EXCEPT ![g] = "no_signal"]
                       /\ UNCHANGED event_queue
    /\ UNCHANGED <<walker_vars, worker_vars, match_vars, caller_vars, env_vars,
                   read_args, read_result, processed_count, legacy_vars, is_generating, worker,
                   worker_thread, cancel_flags, clicks, ignored>>

\* The GUI thread runs the slot handle_generation_finished.
DeliverFinished ==
    /\ event_queue # <<>> /\ Head(event_queue)[1] = "handle_generation_finished"
    /\ event_queue' = Tail(event_queue)
    /\ UNCHANGED <<walker_vars, worker_vars, match_vars, caller_vars, env_vars,
                   read_args, read_result, processed_count, legacy_vars, is_generating, worker,
                   worker_thread, thread_state, cancel_flags, clicks, ignored>>

\* The GUI thread runs worker_thread.quit.
ThreadQuit ==
    /\ event_queue # <<>> /\ Head(event_queue)[1] = "quit"
    /\ thread_state' = [thread_state EXCEPT ![Head(event_queue)[2]] = "quitting"]
    /\ event_queue' = Tail(event_queue)
    /\ UNCHANGED <<walker_vars, worker_vars, match_vars, caller_vars, env_vars,
                   read_args, read_result, processed_count, legacy_vars, is_generating, worker,
                   worker_thread, cancel_flags, clicks, ignored>>

\* The worker thread leaves its event loop: QThread.finished is emitted,
\* which queues generation_cleanup for the GUI thread.
ThreadFinished ==
    /\ \E g \in 1..Len(thread_state) :
           /\ thread_state[g] = "quitting"
           /\ thread_state' = [thread_state EXCEPT ![g] = "finished"]
           /\ event_queue' = Append(event_queue, <<"generation_cleanup", g>>)
    /\ UNCHANGED <<walker_vars, worker_vars, match_vars, caller_vars, env_vars,
                   read_args, read_result, processed_count, legacy_vars, is_generating, worker,
                   worker_thread, cancel_flags, clicks, ignored>>

\* generation_cleanup
GenerationCleanup ==
    /\ event_queue # <<>> /\ Head(event_queue)[1] = "generation_cleanup"
    /\ worker' = 0
    /\ worker_thread' = 0
    /\ is_generating' = FALSE
    /\ event_queue' = Tail(event_queue)
    /\ UNCHANGED <<walker_vars, worker_vars, match_vars, caller_vars, env_vars,
                   read_args, read_result, processed_count, legacy_vars, thread_state,
                   cancel_flags, clicks, ignored>>

InitGui ==
    /\ fs_env = NoFaults
    /\ selected_paths = <<>>
    /\ filter_settings = FilterSettings({}, FALSE, None, None, FALSE)
    /\ IdleWalker
    /\ NoWorker
    /\ NoCaller
    /\ NoMatchCall
    /\ NoReadCall
    /\ processed_count = 0
    /\ NoGeneration
    /\ NoLegacyRun

NextGui ==
    \/ StartGenerateFile
    \/ CancelGeneration
    \/ RunReturns
    \/ DeliverFinished
    \/ ThreadQuit
    \/ ThreadFinished
    \/ GenerationCleanup

SpecGui == InitGui /\ [][NextGui]_vars

(***************************************************************************)
(* The legacy two-phase GeneratorWorker                                    *)
(***************************************************************************)

\* load_ignore_patterns of the legacy file_utils: the three ignore files
\* and .git/info/exclude, unconditionally.
legacy_load_ignore_patterns(directory) == load_ignore_patterns(directory, TRUE, TRUE, TRUE)

\* rel_path_base_str: the path relative to base_directory, "" when it is
\* not below it.
rel_path_base(path) ==
    IF CanRelativeTo(path, BaseDirectory) THEN RelativeTo(path, BaseDirectory) ELSE <<>>

\* The files os.walk(dir_path, topdown=True, followlinks=False) hands to
\* the file loop of count_directory_recursive and of
\* process_directory_recursive, in order: per directory the sorted file
\* names, the subdirectories sorted and pruned (dot name, project, local and
\* global spec) before the walk descends.
RECURSIVE legacy_walk(_, _, _)
legacy_walk(start_dir, spec, queue) ==
    IF queue = <<>> THEN <<>>
    ELSE LET top == Head(queue)
             names == ScanDir(top)
             ds == SortNames(SelectSeq(names, LAMBDA n : IsDir(top \o <<n>>)))
             fs == SortNames(SelectSeq(names, LAMBDA n : ~IsDir(top \o <<n>>)))
             kept == IF CanRelativeTo(top, BaseDirectory)
                     THEN filter_directories(ds, RelativeTo(top, BaseDirectory),
                                             RelativeTo(top, start_dir), spec)
                     ELSE <<>>
             here == IF CanRelativeTo(top, BaseDirectory)
                     THEN [k \in 1..Len(fs) |-> top \o <<fs[k]>>]
                     ELSE <<>>
             below == SelectSeq([k \in 1..Len(kept) |-> top \o <<kept[k]>>],
                                LAMBDA d : ~IsLink(d))
         IN here \o legacy_walk(start_dir, spec, below \o Tail(queue))

\* The file loops of both traversals, the tests before the duplicate test
\* of process_directory_recursive: dot name, stat, regular, not empty.
legacy_candidate(full_path) ==
    /\ ~StartsWithDot(Name(full_path))
    /\ ~StatFails(full_path)
    /\ regular_nonempty(Stat(full_path))

\* The file loops of both traversals: the ignore specs and the file type.
legacy_filters(full_path, start_dir, spec) ==
    /\ CanRelativeTo(full_path, BaseDirectory)
    /\ ~SpecMatches(filter_settings.ignore_spec, RelativeTo(full_path, BaseDirectory), FALSE)
    /\ ~SpecMatches(spec, RelativeTo(full_path, start_dir), FALSE)
    /\ ~SpecMatches(filter_settings.global_ignore_spec,
                    RelativeTo(full_path, BaseDirectory), FALSE)
    /\ matches_file_type(full_path,
                         filter_settings.selected_extensions,
                         filter_settings.selected_filenames,
                         filter_settings.all_known_extensions,
                         filter_settings.all_known_filenames,
                         filter_settings.handle_other_text_files)

\* Both phases, a selected path: the project and global specs on
\* rel_path_base_str.
legacy_top_ignored(path, is_dir) ==
    \/ SpecMatches(filter_settings.ignore_spec, rel_path_base(path), is_dir)
    \/ SpecMatches(filter_settings.global_ignore_spec, rel_path_base(path), is_dir)

\* Both phases, a selected file: the file type; not empty and not binary
\* (tested by the pre-scan; in the processing phase what get_file_content
\* needs to return content).
legacy_top_matches(path) ==
    /\ Stat(path).st_size # 0
    /\ matches_file_type(path,
                         filter_settings.selected_extensions,
                         filter_settings.selected_filenames,
                         filter_settings.all_known_extensions,
                         filter_settings.all_known_filenames,
                         filter_settings.handle_other_text_files)
    /\ ~is_binary_file(path)

\* The selections a legacy worker is started with.
LegacySelections ==
    {<<p>> : p \in {<<nW>>, <<nW, nSub>>, <<nW, nA>>, <<nW, nSub, nA>>, <<nW, nBup>>,
                    <<nW, nE>>, <<nW, nSub, nN>>, <<nW, nLicense>>}} \cup
    { <<<<nW, nA>>, <<nW, nSub>>>>, <<<<nW, nSub>>, <<nW, nA>>>>,
      <<<<nW, nLicense>>, <<nW, nSub, nA>>>>, <<<<nW, nBup>>, <<nW, nSub>>>>,
      <<<<nW, nSub, nA>>, <<nW, nA>>>> }

\* The filter settings a legacy worker is started with: those of the
\* walker, and a project spec with the line "/a.py", which names one of two
\* hard links of a file.
LegacyFilterChoices ==
    FilterChoices \cup
    { FilterSettings({"Python"}, FALSE, PathSpec({AnchoredPattern(<<nA>>)}), None, FALSE) }

InitLegacy ==
    /\ fs_env = NoFaults
    /\ selected_paths \in LegacySelections
    /\ filter_settings \in LegacyFilterChoices
    /\ IdleWalker
    /\ NoWorker
    /\ NoCaller
    /\ NoMatchCall
    /\ NoReadCall
    /\ processed_count = 0
    /\ NoGeneration
    /\ lpc = "created"
    /\ lidx = 0
    /\ lseen = {}
    /\ total_files = 0
    /\ accepted = 0
    /\ ldir = <<>>
    /\ lfiles = <<>>

legacy_frame == <<filter_settings, is_cancelled, pc, idx, discovered_files, seen,
                  walk_vars, history_vars, found_at, scanned, worker_vars,
                  match_vars, caller_vars, env_vars, read_args, read_result,
                  processed_count, gui_vars>>

\* run, start of the pre-scan: an empty seen set, the selected paths sorted.
LegacyPreScanStart ==
    /\ lpc = "created"
    /\ selected_paths' = SortPaths(selected_paths)
    /\ lseen' = {}
    /\ total_files' = 0
    /\ lidx' = 1
    /\ lpc' = "pre_scan"
    /\ UNCHANGED <<legacy_frame, accepted, ldir, lfiles>>

\* Both phases, a selected directory that is not ignored: its ignore files
\* are loaded and the traversal starts (phase names the traversal).
LegacyEnter(path, phase) ==
    LET walked == legacy_walk(path, legacy_load_ignore_patterns(path), <<path>>)
    IN IF walked = <<>>
       THEN /\ lidx' = lidx + 1
            /\ UNCHANGED <<lpc, ldir, lfiles>>
       ELSE /\ ldir' = path
            /\ lfiles' = walked
            /\ lpc' = phase
            /\ UNCHANGED lidx

\* Both traversals, after a file: the next file, or back to the loop over
\* the selected paths (phase names that loop).
LegacyAdvance(phase) ==
    /\ lfiles' = Tail(lfiles)
    /\ IF Tail(lfiles) = <<>>
       THEN /\ lpc' = phase
            /\ lidx' = lidx + 1
            /\ ldir' = <<>>
       ELSE UNCHANGED <<lpc, lidx, ldir>>

\* run, pre-scan, one selected path.
LegacyPreScanPath ==
    /\ lpc = "pre_scan" /\ lidx <= Len(selected_paths)
    /\ LET path == selected_paths[lidx]
           st == Stat(path)
       IN IF ~StatFails(path) /\ st.mode = "dir" /\ ~legacy_top_ignored(path, TRUE)
          THEN /\ LegacyEnter(path, "count_walk")
               /\ UNCHANGED <<lseen, total_files>>
          ELSE /\ IF /\ ~StatFails(path)
                     /\ st.mode = "file"
                     /\ st.st_size # 0
                     /\ ~legacy_top_ignored(path, FALSE)
                     /\ legacy_top_matches(path)
                     /\ dev_ino(st) \notin lseen
                  THEN /\ lseen' = lseen \cup {dev_ino(st)}
                       /\ total_files' = total_files + 1
                  ELSE UNCHANGED <<lseen, total_files>>
               /\ lidx' = lidx + 1
               /\ UNCHANGED <<lpc, ldir, lfiles>>
    /\ UNCHANGED <<selected_paths, legacy_frame, accepted>>

\* FileCounter.count_directory_recursive, one file: a file that passes
\* every test and is not binary is looked up in seen last, added and
\* counted.
LegacyCountFile ==
    /\ lpc = "count_walk"
    /\ LET f == Head(lfiles)
           id == dev_ino(Stat(f))
       IN IF /\ legacy_candidate(f)
             /\ legacy_filters(f, ldir, legacy_load_ignore_patterns(ldir))
             /\ ~is_binary_file(f)
             /\ id \notin lseen
          THEN /\ lseen' = lseen \cup {id}
               /\ total_files' = total_files + 1
          ELSE UNCHANGED <<lseen, total_files>>
    /\ LegacyAdvance("pre_scan")
    /\ UNCHANGED <<selected_paths, legacy_frame, accepted>>

\* run, after the pre-scan: nothing found, or pre_count_finished and the
\* start of the processing phase with a new seen set.
LegacyProcessingStart ==
    /\ lpc = "pre_scan" /\ lidx > Len(selected_paths)
    /\ IF total_files = 0
       THEN /\ lpc' = "no_match"
            /\ UNCHANGED <<selected_paths, lseen, lidx>>
       ELSE /\ lpc' = "processing"
            /\ selected_paths' = SortPaths(selected_paths)
            /\ lseen' = {}
            /\ lidx' = 1
    /\ UNCHANGED <<legacy_frame, total_files, accepted, ldir, lfiles>>

\* run, processing phase, one selected path.
LegacyProcessPath ==
    /\ lpc = "processing" /\ lidx <= Len(selected_paths)
    /\ LET path == selected_paths[lidx]
           st == Stat(path)
       IN IF ~StatFails(path) /\ st.mode = "dir" /\ ~legacy_top_ignored(path, TRUE)
          THEN /\ LegacyEnter(path, "process_walk")
               /\ UNCHANGED <<lseen, accepted>>
          ELSE /\ IF /\ ~StatFails(path)
                     /\ st.mode = "file"
                     /\ ~legacy_top_ignored(path, FALSE)
                     /\ dev_ino(st) \notin lseen
                  THEN /\ lseen' = lseen \cup {dev_ino(st)}
                       /\ accepted' = IF legacy_top_matches(path) THEN accepted + 1
                                      ELSE accepted
                  ELSE UNCHANGED <<lseen, accepted>>
               /\ lidx' = lidx + 1
               /\ UNCHANGED <<lpc, ldir, lfiles>>
    /\ UNCHANGED <<selected_paths, legacy_frame, total_files>>

\* FileProcessor.process_directory_recursive, one file: a regular,
\* non-empty file is looked up in seen and added first; then come the
\* ignore specs and the file type.  A file that passes them is handed to
\* get_file_content; it counts as accepted here unless it is binary.
LegacyProcessFile ==
    /\ lpc = "process_walk"
    /\ LET f == Head(lfiles)
           id == dev_ino(Stat(f))
       IN IF ~legacy_candidate(f) \/ id \in lseen
          THEN UNCHANGED <<lseen, accepted>>
          ELSE /\ lseen' = lseen \cup {id}
               /\ accepted' =
                      IF /\ legacy_filters(f, ldir, legacy_load_ignore_patterns(ldir))
                         /\ ~is_binary_file(f)
                      THEN accepted + 1 ELSE accepted
    /\ LegacyAdvance("processing")
    /\ UNCHANGED <<selected_paths, legacy_frame, total_files>>

\* run, after the processing loop.
LegacyRunEnd ==
    /\ lpc = "processing" /\ lidx > Len(selected_paths)
    /\ lpc' = "done"
    /\ UNCHANGED <<selected_paths, legacy_frame, lidx, lseen, total_files, accepted,
                   ldir, lfiles>>

NextLegacy ==
    \/ LegacyPreScanStart
    \/ LegacyPreScanPath
    \/ LegacyCountFile
    \/ LegacyProcessingStart
    \/ LegacyProcessPath
    \/ LegacyProcessFile
    \/ LegacyRunEnd

SpecLegacy == InitLegacy /\ [][NextLegacy]_vars

(***************************************************************************)
(* Properties of matches_file_type                                         *)
(***************************************************************************)

\* The file of a call belongs to a known category and to no selected one.
KnownButUnselected(a) ==
    /\ \/ Lower(Name(a.filepath)) \in a.all_names
       \/ Lower(Suffix(Name(a.filepath))) \in a.all_exts
    /\ Lower(Name(a.filepath)) \notin a.selected_names
    /\ Lower(Suffix(Name(a.filepath))) \notin a.selected_exts

\* C4: matches_file_type returns false for a file whose lower-cased name or
\* extension is known while neither is selected, whatever handle_other and
\* the text-likelihood heuristic say.
C4_KnownUnselectedNeverMatches ==
    (match_result # <<>> /\ KnownButUnselected(match_args)) => match_result[1] = FALSE

\* C4 witness: the call was made with the catch-all enabled on a file of a
\* known, unselected category that the heuristic takes for text.
C4_Witness ==
    /\ match_result # <<>>
    /\ KnownButUnselected(match_args)
    /\ match_args.handle_other
    /\ is_likely_text_file(match_args.filepath)

(***************************************************************************)
(* Properties of discover_files                                            *)
(***************************************************************************)

\* The (device, inode) pair of the file a path names.
Identity(p) == <<Resolve(p).dev, Resolve(p).ino>>

\* The local spec discover_files loads for a selected directory.
LocalSpecOf(d) ==
    load_ignore_patterns(d, filter_settings.use_gitignore,
                         filter_settings.use_npmignore,
                         filter_settings.use_dockerignore)

\* The inclusion test on a file nothing has been seen of yet.
PassesInclusion(f, local_spec, root_relative_to_current) ==
    /\ ~StatFails(f)
    /\ should_include_file(f, Stat(f), {}, local_spec, root_relative_to_current)

\* The walk of the selected directory d0 lists directory d: the listing of d
\* succeeds, and d is d0, or a subdirectory, no symbolic link and not pruned,
\* of a directory it lists.
RECURSIVE Walked(_, _)
Walked(d0, d) ==
    \/ d = d0 /\ ~ScanFails(d)
    \/ /\ Len(d) > Len(d0)
       /\ IsPrefix(d0, d)
       /\ Walked(d0, Parent(d))
       /\ CanRelativeTo(Parent(d), BaseDirectory)
       /\ Exists(d) /\ Node(d).kind = "dir"
       /\ ~ScanFails(d)
       /\ ~is_directory_ignored_by_name(Name(d), RelativeTo(Parent(d), BaseDirectory),
                                        RelativeTo(Parent(d), d0), LocalSpecOf(d0))

AllPaths == {Entries[k].path : k \in 1..Len(Entries)}

\* The paths that pass the inclusion test and are reached from a list of
\* selected paths: a selected file, or a file in a directory that the walk of
\* a selected directory lists.
Candidates(sel) ==
    {p \in Range(sel) : IsFile(p) /\ PassesInclusion(p, None, <<>>)}
    \cup
    {f \in AllPaths :
        \E d0 \in Range(sel) :
            /\ ~StatFails(d0) /\ IsDir(d0) /\ ~is_directory_ignored(d0)
            /\ Len(f) > Len(d0) /\ IsPrefix(d0, f)
            /\ Walked(d0, Parent(f))
            /\ CanRelativeTo(Parent(f), BaseDirectory)
            /\ ~IsDir(f)
            /\ PassesInclusion(f, LocalSpecOf(d0), RelativeTo(Parent(f), d0))}

\* C1: the accumulated list never holds two paths of the same (device,
\* inode), and when an uncancelled discover_files has returned, every file
\* that passes the inclusion test and is reached from the selected paths,
\* through however many of them, is in the result exactly once.
C1_NoDuplicateInode ==
    /\ \A j, k \in 1..Len(Accumulated) :
           j # k => Identity(Accumulated[j]) # Identity(Accumulated[k])
    /\ (pc = "returned" /\ ~is_cancelled) =>
           \A f \in Candidates(selected_paths) :
               Cardinality({k \in 1..Len(discovered_files) :
                               Identity(discovered_files[k]) = Identity(f)}) = 1

\* C1 witness: an uncancelled call has returned and two different paths
\* reached from the selection are the same file.
C1_Witness ==
    /\ pc = "returned" /\ ~is_cancelled
    /\ \E f, g \in Candidates(selected_paths) : f # g /\ Identity(f) = Identity(g)

\* C2: no accumulated path has a name, or a directory on its way, that
\* starts with "." and no directory with such a name is listed, whether it
\* is met during recursion or is itself selected.
C2_HiddenNeverReturnedNorDescended ==
    /\ \A f \in Range(Accumulated) : \A k \in 1..Len(f) : ~StartsWithDot(f[k])
    /\ \A d \in scanned : \A k \in 1..Len(d) : ~StartsWithDot(d[k])

\* C3: no accumulated file matches the project spec or the global spec by
\* its path relative to base_directory, nor the local spec of the selected
\* directory it was found under by its path relative to that directory.
NotIgnored(f, sel) ==
    /\ ~SpecMatches(filter_settings.ignore_spec, RelativeTo(f, BaseDirectory), FALSE)
    /\ ~SpecMatches(filter_settings.global_ignore_spec, RelativeTo(f, BaseDirectory), FALSE)
    /\ IsDir(sel) => ~SpecMatches(LocalSpecOf(sel), RelativeTo(f, sel), FALSE)

C3_IgnoredFilesExcluded ==
    /\ \A k \in 1..Len(discovered_files) :
           NotIgnored(discovered_files[k], selected_paths[found_at[k]])
    /\ \A k \in 1..Len(dir_files) : NotIgnored(dir_files[k], dir_path)

\* The first 1024 bytes of the file a path names contain a NUL byte.
HasNulInFirstKB(f) ==
    LET n == Resolve(f)
    IN n.kind = "file" /\ n.nul >= 1 /\ n.nul <= 1024 /\ n.nul <= n.size

\* C5: no accumulated file has a NUL byte among its first 1024 bytes.
C5_BinaryExcluded == \A f \in Range(Accumulated) : ~HasNulInFirstKB(f)

\* C5 witness: the file loop has just examined a file of a selected
\* extension with a NUL byte among its first 1024 bytes.
C5_Witness ==
    /\ pc = "file_loop" /\ fidx > 1
    /\ HasNulInFirstKB(root \o <<files[fidx - 1]>>)
    /\ Lower(Suffix(files[fidx - 1])) \in filter_settings.selected_extensions

\* C6: no accumulated file has size zero.
C6_EmptyExcluded == \A f \in Range(Accumulated) : Resolve(f).size > 0

\* C6 witness: the file loop has just examined a zero-byte file of a
\* selected extension.
C6_Witness ==
    /\ pc = "file_loop" /\ fidx > 1
    /\ Resolve(root \o <<files[fidx - 1]>>).size = 0
    /\ Lower(Suffix(files[fidx - 1])) \in filter_settings.selected_extensions

\* Sort keys in ascending order (equal keys allowed).
Ascending(keys) ==
    \A j, k \in 1..Len(keys) : j < k => ~StrLess(keys[k], keys[j])

\* Call k of discover_files ran to its end without cancellation.
Uncancelled(k) == k < calls \/ ~is_cancelled

\* The processing order of discover_files: what C7 says of one call.
ProcessingOrder ==
    /\ pc # "idle" => Ascending([k \in 1..Len(selected_paths) |->
                                    Lower(Name(selected_paths[k]))])
    /\ pc \in {"file_loop", "file_body"} =>
           Ascending([k \in 1..Len(files) |-> Lower(files[k])])
    /\ \A j, k \in 1..Len(found_at) : j < k => found_at[j] <= found_at[k]

\* No two paths of a list have the same lower-cased name.
DistinctKeys(q) ==
    \A j, k \in 1..Len(q) : j # k => Lower(Name(q[j])) # Lower(Name(q[k]))

\* C7 as stated: the selected paths are processed in ascending order of
\* lower-cased name, the files of a directory level likewise, the files of
\* an earlier selected path precede those of a later one, and two
\* uncancelled calls given the same paths in any two orders return the same
\* list.
C7_OrderIndependentOfCaller ==
    /\ ProcessingOrder
    /\ \A j, k \in 1..Len(returned) :
           (Uncancelled(j) /\ Uncancelled(k) /\ Range(inputs[j]) = Range(inputs[k]))
               => returned[j] = returned[k]

\* C7 amended: the same, the last part for selected paths whose lower-cased
\* names are pairwise different (paths of equal lower-cased name keep the
\* order the caller gave them).
C7_OrderIndependentForDistinctNames ==
    /\ ProcessingOrder
    /\ \A j, k \in 1..Len(returned) :
           (Uncancelled(j) /\ Uncancelled(k) /\ Range(inputs[j]) = Range(inputs[k])
            /\ DistinctKeys(inputs[j]))
               => returned[j] = returned[k]

\* C7 witness: two uncancelled calls were given the same paths, of
\* different lower-cased names, in two different orders and found files
\* under both paths.
C7_Witness ==
    /\ Len(returned) = 2 /\ ~is_cancelled
    /\ inputs[1] # inputs[2] /\ Range(inputs[1]) = Range(inputs[2])
    /\ inputs[1] # selected_paths
    /\ DistinctKeys(inputs[1])
    /\ \E j, k \in 1..Len(found_at) : found_at[j] # found_at[k]

\* C8: a call of discover_files that finds the configuration as the call
\* before left it, and is not cancelled, returns the same list and count.
C8_Idempotent ==
    \A k \in 1..Len(returned) :
        (k > 1 /\ Uncancelled(k) /\ inputs[k] = SortPaths(inputs[k - 1]))
            => returned[k] = returned[k - 1]

\* C8 witness: the second call has returned, uncancelled, on the list the
\* first call had sorted in place, and the first call found several files
\* and filled its seen set.
C8_Witness ==
    /\ Len(returned) = 2 /\ ~is_cancelled
    /\ inputs[2] = SortPaths(inputs[1]) /\ inputs[2] # inputs[1]
    /\ returned[1][2] >= 2

\* The loop checks of discover_files and the loop bodies they guard.
LoopChecks == {"path_loop", "walk_check", "file_loop"}
LoopBodies == {"path_body", "walk_body", "file_body"}

\* A loop iteration that starts with the flag set exits: its body is not
\* entered and nothing is accumulated.
CancelledIterationExits ==
    (is_cancelled /\ pc \in LoopChecks) =>
        (pc' \notin LoopBodies /\ Accumulated' = Accumulated)

\* C10 as stated: with the flag set every iteration that starts exits, no
\* file is added to what is accumulated, and discover_files returns what
\* was accumulated when the flag was set.
C10_NothingAddedAfterCancel ==
    /\ [][CancelledIterationExits]_vars
    /\ [][is_cancelled => Accumulated' = Accumulated]_vars
    /\ []((pc = "returned" /\ is_cancelled) => LastReturned = acc_at_cancel)

\* C10 amended: with the flag set every iteration that starts exits; only
\* the iteration in progress when the flag was set may still add its one
\* file; discover_files returns what is accumulated then.
C10_OnlyIterationInProgressAdds ==
    /\ [][CancelledIterationExits]_vars
    /\ [](is_cancelled =>
             \/ Accumulated = acc_at_cancel
             \/ \E f \in AllPaths : Accumulated = Append(acc_at_cancel, f))
    /\ []((pc = "returned" /\ is_cancelled) =>
             /\ LastReturned = discovered_files
             /\ Len(LastReturned) <= Len(acc_at_cancel) + 1)

\* C10 witness: a cancelled call has returned files while a selected path
\* was still unprocessed.
C10_Witness ==
    /\ pc = "returned" /\ is_cancelled
    /\ acc_at_cancel # <<>>
    /\ LastReturned = acc_at_cancel
    /\ idx <= Len(selected_paths)

(***************************************************************************)
(* Properties of GeneratorWorker.run                                       *)
(***************************************************************************)

FinishedSignals == SelectSeq(signals, LAMBDA x : x[1] = "finished")

\* What a finished signal reports is one of the four terminal states.
TerminalState(x) ==
    \/ x[2] # "" /\ x[4] = NoError
    \/ x[2] = "" /\ x[3] = <<>> /\ x[4] = NoMatch
    \/ x[2] = "" /\ x[3] = <<>> /\ x[4] = Cancelled
    \/ x[2] = "" /\ x[3] = <<>> /\ \E e \in Faults : x[4] = ErrorMessage(e)

\* C9: run never emits finished twice, has emitted it exactly once when it
\* ends, and what it reports is one of success (a temp path, no error
\* message), no matching files, cancelled, or error with a message.
C9_FinishedExactlyOnce ==
    /\ Len(FinishedSignals) <= 1
    /\ wpc = "done" => Len(FinishedSignals) = 1
    /\ \A k \in 1..Len(FinishedSignals) : TerminalState(FinishedSignals[k])

\* C11: once GeneratorWorker.cancel() has been called during the discovery
\* phase, the next loop check of the walk (per selected path, per
\* directory, per file) does not enter its body: the walk touches no
\* further entry of the filesystem.
C11_WalkObservesWorkerCancel ==
    [][(worker_cancelled /\ wpc = "discovering" /\ pc \in LoopChecks)
           => pc' \notin LoopBodies]_vars

\* C12: a run that ends in the cancelled state reports an empty temp path
\* and an empty list of processed files, and no temporary file is left.
C12_CancelledHandsOverNothing ==
    \A k \in 1..Len(FinishedSignals) :
        FinishedSignals[k][4] = Cancelled =>
            /\ FinishedSignals[k][2] = ""
            /\ FinishedSignals[k][3] = <<>>
            /\ ~temp_exists

\* C12 witness: a run cancelled while it streamed files, after it had
\* created the temporary file and written sections to it, has ended in the
\* cancelled state.
C12_Witness ==
    /\ wpc = "done"
    /\ Len(FinishedSignals) = 1 /\ FinishedSignals[1][4] = Cancelled
    /\ temp_path # "" /\ processed_files # <<>>

\* C13: a run whose discovery was not cancelled and found no file ends in
\* the 'no matching files found' state, and the caller takes that state as
\* information: the main window shows no generation error, the CLI does
\* not return the processing-error exit code.
C13_ZeroMatchesInformational ==
    /\ (wpc = "done" /\ ~worker_cancelled /\ LastReturned = <<>>)
           => (Len(FinishedSignals) = 1 /\ FinishedSignals[1][4] = NoMatch)
    /\ (caller_outcome # <<>> /\ LastFinished[4] = NoMatch)
           => IF caller_outcome[1] = "gui"
              THEN /\ caller_outcome[2].dialog # "warning: Generation Error"
                   /\ caller_outcome[2].progress_format # "Error"
              ELSE caller_outcome[2] # PROCESSING_ERROR

C15_NoSymlinkReturned ==
    /\ \A k \in 1..Len(Accumulated) : ~IsLink(Accumulated[k])
    /\ \A d \in scanned : ~IsLink(d)

\* The selected path from which the k-th accumulated file was found.
FoundUnder(k) ==
    IF k <= Len(discovered_files) THEN selected_paths[found_at[k]] ELSE dir_path

\* C16: a file found by descent from a selected directory matches the
\* patterns of no enabled ignore file of a subdirectory the walk descended
\* into on the way to it (matched relative to that subdirectory).
C16_NestedIgnoreFilesApplied ==
    \A k \in 1..Len(Accumulated) :
        LET f == Accumulated[k]
        IN \A n \in (Len(FoundUnder(k)) + 1)..(Len(f) - 1) :
               LET d == SubSeq(f, 1, n)
               IN ~SpecMatches(LocalSpecOf(d), RelativeTo(f, d), FALSE)

\* The local check of _should_include_file is reached for a file: the
\* tests before it have let the file through.
ReachesLocalCheck(file_path) ==
    /\ ~StatFails(file_path)
    /\ regular_nonempty(Stat(file_path))
    /\ ~hidden_name(file_path)
    /\ dev_ino(Stat(file_path)) \notin seen
    /\ CanRelativeTo(file_path, BaseDirectory)
    /\ ~SpecMatches(filter_settings.ignore_spec,
                    RelativeTo(file_path, BaseDirectory), FALSE)

\* C17: whenever the walk of a selected directory that has a local spec
\* matches a file against it, the path it gives to the local spec is the
\* file's path relative to the selected directory (the project and global
\* specs are given the path relative to base_directory).
C17_LocalSpecAnchoredAtSelected ==
    (/\ pc = "file_body"
     /\ current_dir_ignore_spec.present
     /\ ReachesLocalCheck(root \o <<files[fidx]>>)) =>
        LET full_path == root \o <<files[fidx]>>
            anchor == local_anchor(RelativeTo(root, dir_path))
        IN /\ CanRelativeTo(full_path, anchor)
           /\ RelativeTo(full_path, anchor) = RelativeTo(full_path, dir_path)

\* Directory d, below the selected directory sel that is walked with
\* local_spec, is one the walk has to prune: a dot name, or a match of the
\* project or global spec by its path relative to base_directory, or of the
\* local spec by its path relative to sel.
PrunedUnder(sel, local_spec, d) ==
    /\ Len(d) > Len(sel) /\ IsPrefix(sel, d)
    /\ CanRelativeTo(d, BaseDirectory)
    /\ \/ StartsWithDot(Name(d))
       \/ SpecMatches(filter_settings.ignore_spec, RelativeTo(d, BaseDirectory), TRUE)
       \/ SpecMatches(filter_settings.global_ignore_spec, RelativeTo(d, BaseDirectory), TRUE)
       \/ SpecMatches(local_spec, RelativeTo(d, sel), TRUE)

\* Directory p is such a directory or lies below one.
BelowPruned(sel, local_spec, p) ==
    \E n \in (Len(sel) + 1)..Len(p) : PrunedUnder(sel, local_spec, SubSeq(p, 1, n))

\* C18: the traversal of a selected directory neither lists nor queues a
\* directory that is pruned or lies below a pruned one, so it stats and
\* sniffs no file there, and no file from there is in its result.
C18_PrunedNeverEntered ==
    /\ dir_path # <<>> =>
           /\ \A d \in Range(stack) \cup (IF root = <<>> THEN {} ELSE {root}) :
                  ~BelowPruned(dir_path, current_dir_ignore_spec, d)
           /\ \A f \in Range(dir_files) :
                  ~BelowPruned(dir_path, current_dir_ignore_spec, Parent(f))
    /\ \A k \in 1..Len(discovered_files) :
           LET sel == selected_paths[found_at[k]]
           IN IsDir(sel) =>
                  ~BelowPruned(sel, LocalSpecOf(sel), Parent(discovered_files[k]))

\* C18 witness: the traversal of a selected directory has returned files
\* and left out a subdirectory, holding files, that only the local spec
\* prunes.
C18_Witness ==
    /\ pc = "returned" /\ ~is_cancelled /\ discovered_files # <<>>
    /\ \E sel \in Range(selected_paths) : \E f \in AllPaths :
           /\ IsDir(sel) /\ IsFile(f)
           /\ SpecMatches(LocalSpecOf(sel), RelativeTo(Parent(f), sel), TRUE)
           /\ ~StartsWithDot(Name(Parent(f)))
           /\ PrunedUnder(sel, LocalSpecOf(sel), Parent(f))
           /\ PassesInclusion(f, None, <<>>)

\* C19: the local spec load_ignore_patterns returns for a selected
\* directory when gitignore handling is disabled holds no pattern of the
\* directory's .git/info/exclude (so that no file is left out for one).
C19_ExcludeOnlyWithGitignore ==
    (dir_path # <<>> /\ ~filter_settings.use_gitignore) =>
        \A pat \in Range(IgnoreLines(dir_path \o <<nGit, nInfo, nExclude>>)) :
            pat \notin current_dir_ignore_spec.patterns

\* C20: matches_file_type returns true for a file whose name, lower-cased,
\* equals a lower-cased selected file name, or whose extension, lower-cased,
\* equals a lower-cased selected extension, for the sets the main window
\* and the command line build.
C20_CaseInsensitiveMatch ==
    (/\ match_result # <<>>
     /\ \/ \E e \in match_args.selected_names :
               Lower(e) = Lower(Name(match_args.filepath))
        \/ \E e \in match_args.selected_exts :
               Lower(e) = Lower(Suffix(Name(match_args.filepath))))
        => match_result[1] = TRUE

\* C21: no file that discover_files accumulates was found under a selected
\* path that is itself a symbolic link or a special file (neither a regular
\* file nor a directory); such a selected path is passed over.
C21_TopLevelLinkOrSpecialSkipped ==
    \A k \in 1..Len(Accumulated) : Node(FoundUnder(k)).kind \in {"file", "dir"}

(***************************************************************************)
(* Properties of FileReader.get_file_content                               *)
(***************************************************************************)

\* The positions of the list at which the bytes of the file decode.
Decodable(filepath, encodings) ==
    {k \in 1..Len(encodings) : decode(Bytes(filepath), encodings[k]).ok}

\* The call reached the loop over the encodings: stat did not leave the
\* method and the sniff found the file readable and not binary.
ReachedEncodings ==
    /\ read_result # <<>>
    /\ ~read_result[1].raised
    /\ ~is_binary_file(read_args.filepath)

\* What the list order prescribes for a call: read_text is called with the
\* encodings in list order up to the first that decodes (decoded holds its
\* text) and with none after it; a read error before that ends the call at
\* once; when none decodes all have been tried.
Prescribed ==
    LET encodings == reader_encodings(read_args.encodings)
        ok == Decodable(read_args.filepath, encodings)
        first == IF ok = {} THEN Len(encodings) + 1
                 ELSE CHOOSE k \in ok : \A j \in ok : k <= j
        err == read_args.read_error_at
    IN IF err >= 1 /\ err <= first /\ err <= Len(encodings)
       THEN [tried |-> SubSeq(encodings, 1, err), decoded |-> <<>>]
       ELSE IF ok = {}
       THEN [tried |-> encodings, decoded |-> <<>>]
       ELSE [tried |-> SubSeq(encodings, 1, first),
             decoded |-> <<decode(Bytes(read_args.filepath), encodings[first]).text>>]

C22_SniffFailureCountsAsBinary ==
    /\ [](\A f \in AllPaths :
             OpenFails(f) =>
                 /\ is_binary_file(f)
                 /\ get_file_content(f, DefaultEncodings, "none", 0).content = NoContent)
    /\ [](wpc = "discovering" =>
             /\ \A f \in Range(Accumulated) : ~OpenFails(f)
             /\ pc = "returned" =>
                    \A f \in Candidates(selected_paths) :
                        \E g \in Range(discovered_files) : Identity(g) = Identity(f))
    /\ [][(/\ wpc = "streaming" /\ sidx <= Len(LastReturned)
            /\ OpenFails(LastReturned[sidx])
            /\ sidx' # sidx)
              => /\ wpc' = "streaming" /\ sidx' = sidx + 1
                 /\ output' = output /\ processed_files' = processed_files]_vars

\* C22 witness: a run has ended in success although discovery met a file
\* it could not read and left it out, and another file could no longer be
\* read when it was to be streamed; files after it were streamed.
C22_Witness ==
    /\ wpc = "done"
    /\ Len(FinishedSignals) = 1 /\ FinishedSignals[1][4] = NoError
    /\ \E f \in AllPaths \ Range(LastReturned) :
           /\ OpenFails(f) /\ IsFile(f)
           /\ \E g \in Range(LastReturned) : Parent(g) = Parent(f)
    /\ \E k \in 1..Len(LastReturned) :
           /\ OpenFails(LastReturned[k])
           /\ LastReturned[k] \notin Range(processed_files)
           /\ \E j \in (k + 1)..Len(LastReturned) : LastReturned[j] \in Range(processed_files)

(***************************************************************************)
(* Cancellation and the order of the signals of run                        *)
(***************************************************************************)

\* The finished signals and the positions of a kind of signal in signals.
Positions(name) == {k \in 1..Len(signals) : signals[k][1] = name}

\* C24: when cancel was called before the finished signal was emitted, and
\* no write or removal fails, the run ends with the finished signal of the
\* cancelled state and never with that of success.
C24_CancelBeforeFinishedEndsCancelled ==
    (wpc = "done" /\ worker_cancelled /\ io_fault = {})
        => /\ Len(FinishedSignals) = 1
           /\ FinishedSignals[1][4] = Cancelled
           /\ FinishedSignals[1][2] = ""

\* C25: pre_count_finished is emitted at most once, only after a discovery
\* that found a file, and before every progress_updated; progress_updated
\* of 100 only in a run whose finished signal reports success; when
\* status_updated('Finished') has been emitted it is the last signal and
\* the finished signal precedes it.
C25_SignalOrder ==
    /\ Cardinality(Positions("pre_count_finished")) <= 1
    /\ \A k \in Positions("pre_count_finished") :
           /\ signals[k][2] = Len(LastReturned) /\ LastReturned # <<>>
           /\ pc = "returned"
           /\ \A j \in Positions("progress_updated") : k < j
    /\ \A k \in Positions("progress_updated") :
           signals[k][2] = 100 =>
               (wpc = "done" /\ \E j \in Positions("finished") : signals[j][4] = NoError)
    /\ \A k \in Positions("status_updated") :
           signals[k][2] = "Finished" =>
               /\ k = Len(signals)
               /\ k > 1 /\ signals[k - 1][1] = "finished"

(***************************************************************************)
(* Properties of ContentStreamer.stream_files                              *)
(***************************************************************************)

\* What stream_files has written after the header: the complete sections,
\* and the footers.
Written == SubSeq(output, 2, Len(output))
Sections == SelectSeq(Written, LAMBDA x : x[1] = "section")
Footers == {k \in 1..Len(Written) : Written[k][1] = "footer"}

\* The files of the input list handled so far that stream_files is to
\* write: content present, and no error raised while handling them.
HandlingRaises(path) == "section" \in io_fault /\ path = LastReturned[1]
ToBeWritten ==
    SelectSeq(SubSeq(LastReturned, 1, sidx - 1),
              LAMBDA path :
                  /\ get_file_content(path, DefaultEncodings, "none", 0).content.present
                  /\ ~HandlingRaises(path))

\* C26: while stream_files runs and after it, the complete sections are
\* those of the files handled so far with content present and no error, in
\* the order of the input list; processed_files is that list and
\* processed_count its length; a skipped file does not stop the stream
\* (the loop ends only past the last file); the footer is written once,
\* last, when the loop is over, and not before.
C26_OneSectionPerPresentFile ==
    wpc \in {"streaming", "after_stream", "success"} =>
        /\ processed_files = ToBeWritten
        /\ [k \in 1..Len(Sections) |-> Sections[k][2]] = processed_files
        /\ processed_count = Len(processed_files)
        /\ wpc = "streaming" => Footers = {}
        /\ wpc # "streaming" =>
               /\ sidx = Len(LastReturned) + 1
               /\ Footers = {Len(Written)}

\* C26 witness: stream_files has returned after skipping a file whose
\* content is absent and a file whose handling raised, leaving a part of
\* its section, and writing files that came after them.
C26_Witness ==
    /\ wpc = "after_stream"
    /\ \E k \in 1..Len(Written) : Written[k][1] = "partial"
    /\ \E k \in 2..Len(LastReturned) :
           /\ ~get_file_content(LastReturned[k], DefaultEncodings, "none", 0).content.present
           /\ \E j \in (k + 1)..Len(LastReturned) : LastReturned[j] \in Range(processed_files)

(***************************************************************************)
(* Properties of discover_files and its configuration                      *)
(***************************************************************************)

\* C27: every path accumulated or returned by discover_files lies under
\* base_directory, and a call whose selected paths all lie outside
\* base_directory returns nothing.
C27_ReturnedUnderBase ==
    /\ \A f \in Range(Accumulated) : IsPrefix(BaseDirectory, f)
    /\ \A k \in 1..Len(returned) :
           /\ \A f \in Range(returned[k][1]) : IsPrefix(BaseDirectory, f)
           /\ (\A j \in 1..Len(inputs[k]) : ~IsPrefix(BaseDirectory, inputs[k][j]))
                  => returned[k] = <<<<>>, 0>>

\* C27 witness: discover_files has returned nothing for a selected file
\* outside base_directory that every other test of the filter accepts.
C27_Witness ==
    /\ Len(returned) >= 1
    /\ inputs[1] = << <<nO, nZ>> >>
    /\ returned[1] = <<<<>>, 0>>
    /\ regular_nonempty(Stat(<<nO, nZ>>))
    /\ ~is_binary_file(<<nO, nZ>>)
    /\ matches_file_type(<<nO, nZ>>,
                         filter_settings.selected_extensions,
                         filter_settings.selected_filenames,
                         filter_settings.all_known_extensions,
                         filter_settings.all_known_filenames,
                         filter_settings.handle_other_text_files)

\* C28: discover_files leaves its configuration as it found it: when a
\* call has returned, selected_paths holds the elements the call was
\* started with, in the same order, and no step of the walker changes
\* filter_settings.
C28_ConfigurationUnchanged ==
    /\ [](pc = "returned" => selected_paths = inputs[calls])
    /\ [][filter_settings' = filter_settings]_vars

(***************************************************************************)
(* Properties of the main window                                           *)
(***************************************************************************)

\* The threads that exist: created, and QThread.finished not yet emitted.
LiveThreads == {g \in 1..Len(thread_state) : thread_state[g] # "finished"}

\* C29: at most one worker and worker thread exist at a time; a call of
\* start_generate_file while is_generating changes nothing of the window;
\* is_generating becomes false only in generation_cleanup, run for a thread
\* that has finished.
C29_OneGenerationAtATime ==
    /\ [](/\ Cardinality(LiveThreads) <= 1
          /\ worker # 0 => worker = Len(thread_state) /\ worker_thread = worker)
    /\ [][(is_generating /\ ignored' # ignored)
              => UNCHANGED <<is_generating, worker, worker_thread, thread_state,
                             cancel_flags, event_queue>>]_vars
    /\ [][(is_generating /\ clicks' # clicks /\ ignored' = ignored)
              => UNCHANGED <<is_generating, worker, worker_thread, thread_state,
                             event_queue>>]_vars
    /\ [][(is_generating /\ ~is_generating')
              => /\ event_queue # <<>>
                 /\ Head(event_queue)[1] = "generation_cleanup"
                 /\ thread_state[Head(event_queue)[2]] = "finished"
                 /\ LiveThreads = {}]_vars

\* C29 witness: a second generation is under way, started after the first
\* was cleaned up, and a Generate click was ignored meanwhile.
C29_Witness ==
    /\ is_generating
    /\ Len(thread_state) = 2
    /\ thread_state[1] = "finished" /\ thread_state[2] = "running"
    /\ ignored >= 1

(***************************************************************************)
(* Properties of the legacy two-phase worker                               *)
(***************************************************************************)

\* C30: when the legacy run is over, the total of the pre-scan equals the
\* number of files the processing phase accepted.
C30_PreScanCountsAccepted ==
    lpc = "done" => total_files = accepted

====
